---- MODULE Spec2Model ----
(***************************************************************************)
(* A model of java2flutter: the resource resolver, the companion-source   *)
(* click-handler parser, the cross-file background merge, the layout rule *)
(* engine and the statement lowering.  Each component has its own specification (SpecResolver,  *)
(* SpecColor, ...); the other components' variables stay at their idle    *)
(* values.                                                                 *)
(*                                                                         *)
(* Strings the program inspects are modelled by their parts: a resource   *)
(* reference "@color/accent" is <<"@", "color", "accent">>, any other     *)
(* text is the one-element tuple <<text>>; identifiers and colour strings *)
(* whose characters matter are sequences of one-character strings.        *)
(***************************************************************************)
EXTENDS Integers, Sequences, FiniteSets, TLC

VARIABLES
    phase,          \* ResourceResolver.__init__: which directory is being read
    colors,         \* ResourceResolver.colors
    strings,        \* ResourceResolver.strings
    dimens,         \* ResourceResolver.dimens
    drawables,      \* ResourceResolver.drawables
    colorFiles,     \* names of the color/ selector files read so far
    resolved,       \* the last resolve() call: argument and result
    style_out,      \* the last _text_style call: textSize, resolver, result
    colorIn,        \* argument of android_color_to_flutter
    colorOut,       \* its result
    hphase,         \* extract_click_handlers / _build_logic_and_handlers: position
    id_set,         \* set(xml_ids): the ids of the layout
    java_src,       \* the companion source file read last
    handlers,       \* _extract_handlers_from_src(java_src, ...)
    handlers_by_id, \* extract_click_handlers: id -> ClickHandlerIR
    id_order,       \* the keys of handlers_by_id in the order they were inserted
    filesRead,      \* how many .java files the loop has read
    logic_map,      \* _build_logic_and_handlers: key -> handler function name
    handler_funcs,  \* the handler functions generated: name and body
    button,         \* the Button translated last: its id and its onPressed callee
    bphase,         \* generate_dart_code, steps 1 and 2: position
    xml_ir,         \* the primary layout's tree
    bg_map,         \* key -> the background collected first for it
    layoutFilesRead,\* how many sibling layout files the loop has read
    primaryRead,    \* has the loop read the primary file itself
    primary_root_bg,\* the background the primary file's root element declares
    sibling_root_bg,\* the first background a sibling file's root element declares
    applied_backgrounds, \* the keys _merge_backgrounds_into_main reports
    scaffold_bg,    \* root_bg_color, root_bg_image, root_bg_decoration of step 5
    lphase,         \* translate_node: position
    layout_node,    \* the node translate_node is called on
    has_resolver,   \* is the resolver argument an object (values_dir given)
    fragments_by_id,\* the fragments_by_id argument
    fragment_file,  \* what lies at the fragment's guessed layout path
    widget,         \* the widget expression translate_node returns
    lowphase,       \* _parse_block_to_ast / _java_ast_block_to_dart: position
    block_src,      \* the handler body text given to _parse_block_to_ast
    block_ast,      \* the Block it returns
    dart_lines,     \* the lines _java_ast_block_to_dart returns
    pphase,         \* _convert_node: position
    el_attrib,      \* the attributes of the element, in document order
    attr_pos,       \* the attribute the loop is at
    node_attrs,     \* node["attrs"]
    screen_view,    \* the type of the view in the screen's layout
    is_stateful,    \* options["is_stateful"] of the rendered screen
    frphase,        \* translate_node with fragment loading: position
    frag_files,     \* the layout files of the fragments
    frag_map,       \* fragments_by_id: the layout file of each container id
    call_stack,     \* the translate_node calls in progress
    frag_widget     \* the widget the first call returns

resVars == <<phase, colors, strings, dimens, drawables, colorFiles, resolved, style_out>>
colVars == <<colorIn, colorOut>>
extractVars == <<id_set, java_src, handlers, handlers_by_id, id_order, filesRead>>
logicVars == <<logic_map, handler_funcs, button>>
hdlVars == <<hphase, extractVars, logicVars>>
bgVars == <<bphase, xml_ir, bg_map, layoutFilesRead, primaryRead,
           primary_root_bg, sibling_root_bg, applied_backgrounds,
           scaffold_bg>>
layVars == <<lphase, layout_node, has_resolver, fragments_by_id, fragment_file, widget>>
lowVars == <<lowphase, block_src, block_ast, dart_lines, screen_view, is_stateful>>
parVars == <<pphase, el_attrib, attr_pos, node_attrs>>
frVars == <<frphase, frag_files, frag_map, call_stack, frag_widget>>
vars == <<resVars, colVars, hdlVars, bgVars, layVars, lowVars, parVars, frVars>>

\* what each component leaves alone
nonResVars == <<colVars, hdlVars, bgVars, layVars, lowVars, parVars, frVars>>
nonColVars == <<resVars, hdlVars, bgVars, layVars, lowVars, parVars, frVars>>
nonHdlVars == <<resVars, colVars, bgVars, layVars, lowVars, parVars, frVars>>
nonBgVars == <<resVars, colVars, hdlVars, layVars, lowVars, parVars, frVars>>
nonLowVars == <<resVars, colVars, hdlVars, bgVars, layVars, parVars, frVars>>
nonParVars == <<resVars, colVars, hdlVars, bgVars, layVars, lowVars, frVars>>
nonFrVars == <<resVars, colVars, hdlVars, bgVars, layVars, lowVars, parVars>>
nonLayVars == <<resVars, colVars, hdlVars, bgVars, lowVars, parVars, frVars>>

\* Python's None where a string is expected; also "no entry" of a dict
None == <<>>

(***************************************************************************)
(* Python dicts with string values: a function over the keys the model    *)
(* uses, None where the dict has no entry.                                 *)
(***************************************************************************)
EmptyDict(keys) == [k \in keys |-> None]
Has(d, k) == k \in DOMAIN d /\ d[k] # None
Get(d, k, default) == IF Has(d, k) THEN d[k] ELSE default
Put(d, k, v) == [d EXCEPT ![k] = v]

(***************************************************************************)
(* Resource strings.                                                       *)
(***************************************************************************)
Ref(cat, key) == <<"@", cat, key>>
Lit(text) == <<text>>
StartsWithRef(val, cat) == Len(val) = 3 /\ val[1] = "@" /\ val[2] = cat
KeyOf(val) == val[3]

(***************************************************************************)
(* ResourceResolver: loading.                                              *)
(***************************************************************************)
ColorKeys == {"accent", "primary"}
StringKeys == {"greeting"}
DimenKeys == {"margin"}
DrawableKeys == {"bg"}

\* texts a <color>, <string> or <dimen> element, or a selector item, can carry
ColorTexts == {Lit("#111111"), Lit("#222222"),
               Ref("color", "accent"), Ref("color", "primary")}
DrawablePaths == {Lit("res/drawable/bg.png")}

TextsOf(tag) ==
    CASE tag = "color" -> ColorTexts
      [] tag = "string" -> {Lit("World"), Ref("color", "accent")}
      [] tag = "dimen" -> {Lit("16dp")}
      [] OTHER -> {}
KeysOf(tag) ==
    CASE tag = "color" -> ColorKeys
      [] tag = "string" -> StringKeys
      [] tag = "dimen" -> DimenKeys
      [] OTHER -> {}

\* the most <item> elements a modelled selector file has
MaxItems == 2

\* one <item> of a selector: has it android:state_checked, and its android:color
Items == [state_checked : BOOLEAN, color : ColorTexts \cup {None}]
ItemLists == UNION {[1..n -> Items] : n \in 0..MaxItems}

\* the items without android:state_checked, in document order
DefaultItems(items) == SelectSeq(items, LAMBDA it : ~it.state_checked)

\* the first item without state_checked, else the first item; <<>> for none
TargetItem(items) ==
    IF DefaultItems(items) # <<>> THEN <<DefaultItems(items)[1]>>
    ELSE IF Len(items) > 0 THEN <<items[1]>> ELSE <<>>

\* the colors table after one selector file name.xml of the color/ directory
SelectorStore(tbl, name, items) ==
    LET target == TargetItem(items)
        color_attr == target[1].color
    IN
    IF target = <<>> THEN tbl
    ELSE IF color_attr = None THEN tbl
    ELSE IF StartsWithRef(color_attr, "color")
         THEN IF Has(tbl, KeyOf(color_attr))
              THEN Put(tbl, name, tbl[KeyOf(color_attr)])
              ELSE Put(tbl, name, color_attr)
    ELSE Put(tbl, name, color_attr)

\* one named child element of a values file: first writer wins
ValuesStore(tbl, name, text) == IF Has(tbl, name) THEN tbl ELSE Put(tbl, name, text)

ResIdle ==
    /\ phase = "idle"
    /\ colors = EmptyDict(ColorKeys)
    /\ strings = EmptyDict(StringKeys)
    /\ dimens = EmptyDict(DimenKeys)
    /\ drawables = EmptyDict(DrawableKeys)
    /\ colorFiles = {}
    /\ resolved = [called |-> FALSE, arg |-> None, out |-> None]
    /\ style_out = [called |-> FALSE, textSize |-> None, resolver |-> FALSE, out |-> ""]

\* __init__: the tables are empty and _load_values(values_dir) starts
ResInit ==
    /\ phase = "values"
    /\ colors = EmptyDict(ColorKeys)
    /\ strings = EmptyDict(StringKeys)
    /\ dimens = EmptyDict(DimenKeys)
    /\ drawables = EmptyDict(DrawableKeys)
    /\ colorFiles = {}
    /\ resolved = [called |-> FALSE, arg |-> None, out |-> None]
    /\ style_out = [called |-> FALSE, textSize |-> None, resolver |-> FALSE, out |-> ""]

\* _load_values, one child element of one XML file (primary or night directory)
LoadValuesEntry(tag, name, text) ==
    /\ phase \in {"values", "night"}
    /\ colors' = IF tag = "color" THEN ValuesStore(colors, name, text) ELSE colors
    /\ strings' = IF tag = "string" THEN ValuesStore(strings, name, text) ELSE strings
    /\ dimens' = IF tag = "dimen" THEN ValuesStore(dimens, name, text) ELSE dimens
    /\ UNCHANGED <<phase, drawables, colorFiles, resolved, style_out, nonResVars>>

\* _load_values(is_main_values=True): the primary files are read, color/ is next
EndPrimaryValues ==
    /\ phase = "values"
    /\ phase' = "color"
    /\ UNCHANGED <<colors, strings, dimens, drawables, colorFiles, resolved, style_out, nonResVars>>

\* _load_color_resources, one selector file
LoadColorSelector(name, items) ==
    /\ phase = "color"
    /\ name \notin colorFiles
    /\ colorFiles' = colorFiles \cup {name}
    /\ colors' = SelectorStore(colors, name, items)
    /\ UNCHANGED <<phase, strings, dimens, drawables, resolved, style_out, nonResVars>>

\* color/ is read; _load_values(values_night_dir, is_main_values=False) is next
EndColorResources ==
    /\ phase = "color"
    /\ phase' = "night"
    /\ UNCHANGED <<colors, strings, dimens, drawables, colorFiles, resolved, style_out, nonResVars>>

\* the night directory is read; __init__ goes on to _load_drawables
EndNightValues ==
    /\ phase = "night"
    /\ phase' = "drawables"
    /\ UNCHANGED <<colors, strings, dimens, drawables, colorFiles, resolved, style_out, nonResVars>>

\* _load_drawables, one image or XML file of one drawable* directory
LoadDrawable(name, path) ==
    /\ phase = "drawables"
    /\ drawables' = ValuesStore(drawables, name, path)
    /\ UNCHANGED <<phase, colors, strings, dimens, colorFiles, resolved, style_out, nonResVars>>

EndDrawables ==
    /\ phase = "drawables"
    /\ phase' = "done"
    /\ UNCHANGED <<colors, strings, dimens, drawables, colorFiles, resolved, style_out, nonResVars>>

(***************************************************************************)
(* ResourceResolver.resolve                                                *)
(***************************************************************************)
\* resolve() without the final "return val"
ResolveIn_DropsOtherText(val, cols, strs, dims, draws) ==
    IF val = None THEN val
    ELSE IF StartsWithRef(val, "color") THEN Get(cols, KeyOf(val), val)
    ELSE IF StartsWithRef(val, "string") THEN Get(strs, KeyOf(val), val)
    ELSE IF StartsWithRef(val, "dimen") THEN Get(dims, KeyOf(val), val)
    ELSE IF StartsWithRef(val, "drawable") THEN Get(draws, KeyOf(val), val)
    ELSE None

ResolveIn(val, cols, strs, dims, draws) ==
    IF val = None THEN val
    ELSE IF StartsWithRef(val, "color") THEN Get(cols, KeyOf(val), val)
    ELSE IF StartsWithRef(val, "string") THEN Get(strs, KeyOf(val), val)
    ELSE IF StartsWithRef(val, "dimen") THEN Get(dims, KeyOf(val), val)
    ELSE IF StartsWithRef(val, "drawable") THEN Get(draws, KeyOf(val), val)
    ELSE val

resolve(val) == ResolveIn(val, colors, strings, dimens, drawables)

\* arguments of resolve(): references to present and absent keys, other text
ResolveArgs ==
    {Ref("color", k) : k \in ColorKeys \cup {"missing"}}
        \cup {Ref("string", k) : k \in StringKeys}
        \cup {Ref("dimen", k) : k \in DimenKeys}
        \cup {Ref("drawable", k) : k \in DrawableKeys}
        \cup {Ref("id", "submit"), Lit("#111111"), Lit("Hello"), None}

ResolveCall(val) ==
    /\ phase = "done"
    /\ resolved' = [called |-> TRUE, arg |-> val, out |-> resolve(val)]
    /\ UNCHANGED <<phase, colors, strings, dimens, drawables, colorFiles, style_out,
                   nonResVars>>

\* view_rules._text_style on a TextView with this textSize and no textColor
\* (size_raw is None without the attribute); with_resolver: is a resolver
\* passed.  parse_dimen_to_px gives the number in tenths, None for a text
\* that is no number with an optional dp, sp or px.
text_style(size_raw, with_resolver) ==
    LET parse_dimen_to_px(d) ==
          CASE d = Lit("16dp") -> <<160>>
            [] d = Lit("14.5sp") -> <<145>>
            [] d = Lit("0sp") -> <<0>>
            [] OTHER -> None
        resolved_size == IF resolve(size_raw) # None THEN resolve(size_raw) ELSE size_raw
        size_px == IF with_resolver THEN parse_dimen_to_px(resolved_size)
                   ELSE parse_dimen_to_px(size_raw)
        parts == IF size_raw # None /\ ~with_resolver /\ size_px # None /\ size_px # <<0>>
                 THEN <<"fontSize: " \o ToString(size_px[1] \div 10) \o "."
                          \o ToString(size_px[1] % 10)>>
                 ELSE <<>>
    IN IF parts = <<>> THEN "" ELSE ", style: TextStyle(" \o parts[1] \o ")"

\* translate_view on a TextView reads _text_style(attrs, resolver)
TextStyleCall(size_raw, with_resolver) ==
    /\ phase = "done"
    /\ style_out' = [called |-> TRUE, textSize |-> size_raw, resolver |-> with_resolver,
                     out |-> text_style(size_raw, with_resolver)]
    /\ UNCHANGED <<phase, colors, strings, dimens, drawables, colorFiles, resolved,
                   nonResVars>>

(***************************************************************************)
(* ResourceResolver.android_color_to_flutter.  A colour string is the     *)
(* sequence of its characters; None and the empty string are both <<>>    *)
(* (both are answered None).                                               *)
(***************************************************************************)
\* the longest digit string of a generated input
MaxDigits == 8

HexChars == {"0", "1", "2", "3", "4", "5", "6", "7", "8", "9",
             "a", "b", "c", "d", "e", "f", "A", "B", "C", "D", "E", "F"}

\* str.upper() on the characters the model uses
UpperChar(ch) ==
    CASE ch = "a" -> "A" [] ch = "b" -> "B" [] ch = "c" -> "C"
      [] ch = "d" -> "D" [] ch = "e" -> "E" [] ch = "f" -> "F"
      [] ch = "g" -> "G"
      [] OTHER -> ch
Upper(str) == [i \in 1..Len(str) |-> UpperChar(str[i])]

\* str.strip() for the blank
RECURSIVE LStrip(_)
LStrip(str) == IF str # <<>> /\ Head(str) = " " THEN LStrip(Tail(str)) ELSE str
RECURSIVE RStrip(_)
RStrip(str) ==
    IF str # <<>> /\ str[Len(str)] = " "
    THEN RStrip(SubSeq(str, 1, Len(str) - 1)) ELSE str
Strip(str) == RStrip(LStrip(str))

android_color_to_flutter(c) ==
    LET s == Strip(c)
        hexv == Tail(s)
    IN
    IF s = <<>> \/ Head(s) # "#" THEN None
    ELSE IF Len(hexv) = 6 THEN <<"0", "x", "F", "F">> \o Upper(hexv)
    ELSE IF Len(hexv) = 8 THEN <<"0", "x">> \o Upper(hexv)
    ELSE None

\* inputs: optional blanks around an optional hash and up to MaxDigits
\* characters, and the two colours of the specification's scenario C
ColorInputs ==
    {lead \o hash \o digits \o trail :
        lead \in {<<>>, <<" ">>}, hash \in {<<>>, <<"#">>},
        digits \in UNION {[1..n -> {"3", "a", "g"}] : n \in 0..MaxDigits},
        trail \in {<<>>, <<" ">>}}
    \cup {<<"#", "3", "3", "6", "6", "9", "9">>,
          <<"#", "A", "A", "3", "3", "6", "6", "9", "9">>}

ConvertColor ==
    /\ ~colorOut.called
    /\ colorOut' = [called |-> TRUE, out |-> android_color_to_flutter(colorIn)]
    /\ UNCHANGED <<colorIn, nonColVars>>

(***************************************************************************)
(* java_parser: click handlers of the companion source files.  A source   *)
(* text is modelled by what the two regular expressions find in it: the   *)
(* findViewById assignments and the setOnClickListener call sites, in     *)
(* text order.                                                             *)
(***************************************************************************)
Ids == {"submit", "btn_ok", "ghost", "btnOk"}
IdSets == {{}, {"submit"}, {"submit", "btn_ok"}, {"btn_ok", "btnOk"}}

\* the most call sites of one modelled source file, the most files of java_root
MaxSites == 2
MaxFiles == 2

\* findViewById assignments of a file: var = findViewById(R.id.<id>);
Binding(var, id) == [var |-> var, id |-> id]

\* a call site <target>.setOnClickListener(<listener>); inline is the id of a
\* findViewById(R.id.<id>) target ("" without one), lastSeg the last dotted
\* segment of the target before any parenthesis, body the statements of onClick
Site(inline, lastSeg, form, body) ==
    [inline |-> inline, lastSeg |-> lastSeg, form |-> form, body |-> body]

\* the companion source files: their assignments and up to MaxSites call sites
JavaSources ==
    LET BindingLists ==
          {<<>>,
           <<Binding("submit", "submit")>>,
           <<Binding("submit", "submit"), Binding("btn", "btn_ok")>>,
           <<Binding("btn", "ghost")>>,
           <<Binding("btn", "submit"), Binding("btn", "btn_ok")>>,
           <<Binding("submit", "btnOk"), Binding("btn", "btn_ok")>>}
        CallSites ==
          {Site("submit", "findViewById", "block_lambda", <<"finish">>),
           Site("ghost", "findViewById", "block_lambda", <<"doWork">>),
           Site("", "submit", "expr_lambda", <<"finish">>),
           Site("", "submit", "block_lambda", <<"doWork">>),
           Site("", "btn", "anonymous_class", <<"finish">>)}
        SiteLists == UNION {[1..n -> CallSites] : n \in 0..MaxSites}
    IN [bindings : BindingLists, sites : SiteLists]
NoSource == [bindings |-> <<>>, sites |-> <<>>]

\* _collect_var_to_id: a later assignment of a variable replaces an earlier
\* one; assignments of ids outside id_set are dropped ("" is "no entry")
RECURSIVE collect_var_to_id(_, _)
collect_var_to_id(bindings, ids) ==
    IF bindings = <<>> THEN [v \in {"submit", "btn"} |-> ""]
    ELSE LET n == Len(bindings)
             var_to_id == collect_var_to_id(SubSeq(bindings, 1, n - 1), ids)
         IN IF bindings[n].id \in ids
            THEN [var_to_id EXCEPT ![bindings[n].var] = bindings[n].id]
            ELSE var_to_id

\* the listener alternatives of the call-site pattern: a lambda with a block
\* body, or an anonymous class; a lambda with an expression body has no "{"
PatternMatches(site) == site.form \in {"block_lambda", "anonymous_class"}

\* _extract_onclick_body: the lambda's block, or for an anonymous class the
\* text from onClick's "{" to the last "}" but one, which keeps onClick's own "}"
extract_onclick_body(site) ==
    IF site.form = "anonymous_class" THEN site.body \o <<"}">> ELSE site.body

\* _append_simple_statements on one statement: a text the method-call
\* pattern does not match is a RawStmt, whose text is kept as a tuple of
\* pieces; every other text of the model is a call <text>() without arguments
Statement(text) ==
    IF text \in {"}", "return", "String s = edit.getText()",
                 "String s = editTitle.getText()"}
    THEN [kind |-> "RawStmt", target |-> "", args |-> "", text |-> <<text>>]
    ELSE [kind |-> "MethodCall", target |-> text, args |-> "", text |-> <<>>]
parse_block_to_ast(inner) == [i \in 1..Len(inner) |-> Statement(inner[i])]

\* the view_ids of a call site without the test "inline_id in id_set"
ViewIdsOf_AnyInlineId(site, var2id, ids) ==
    IF site.inline # ""
    THEN <<site.inline>>
    ELSE IF site.lastSeg \in DOMAIN var2id /\ var2id[site.lastSeg] # ""
         THEN <<var2id[site.lastSeg]>>
         ELSE <<>>

\* the view_ids of a call site: the inline id if it is a layout id, else the
\* id bound to the target's last segment
ViewIdsOf(site, var2id, ids) ==
    IF site.inline # "" /\ site.inline \in ids
    THEN <<site.inline>>
    ELSE IF site.lastSeg \in DOMAIN var2id /\ var2id[site.lastSeg] # ""
         THEN <<var2id[site.lastSeg]>>
         ELSE <<>>

ClickHandlerIR(idx, view_ids, inner) ==
    [name |-> <<"_on_click_", idx>>, view_ids |-> view_ids,
     java_src |-> inner, ast |-> parse_block_to_ast(inner)]

RECURSIVE extract_handlers_from_src(_, _, _)
extract_handlers_from_src(sites, var2id, ids) ==
    IF sites = <<>> THEN <<>>
    ELSE LET n == Len(sites)
             found == extract_handlers_from_src(SubSeq(sites, 1, n - 1), var2id, ids)
             view_ids == ViewIdsOf(sites[n], var2id, ids)
         IN IF ~PatternMatches(sites[n]) THEN found
            ELSE IF view_ids = <<>> THEN found
            ELSE Append(found, ClickHandlerIR(Len(found), view_ids,
                                              extract_onclick_body(sites[n])))

\* handlers_by_id[vid] = h, whatever is there
StoreHandler_Overwrite(by_id, vid, h) == [by_id EXCEPT ![vid] = <<h>>]

\* if vid not in handlers_by_id: handlers_by_id[vid] = h
StoreHandler(by_id, vid, h) ==
    IF by_id[vid] = <<>> THEN [by_id EXCEPT ![vid] = <<h>>] ELSE by_id

\* the inner loops of extract_click_handlers for one file's handlers
RECURSIVE MergeHandlers(_, _)
MergeHandlers(by_id, found) ==
    IF found = <<>> THEN by_id
    ELSE LET h == Head(found)
             stored == IF h.view_ids = <<>> THEN by_id
                       ELSE StoreHandler(by_id, h.view_ids[1], h)
         IN MergeHandlers(stored, Tail(found))

(***************************************************************************)
(* generator: lowering of a handler body, the logic map, the Button rule. *)
(***************************************************************************)
\* IfStmt(condition, then_block, else_block): a block is its statements,
\* else_block is <<>> for None and <<block>> otherwise
IfStmt(condition, then_block, else_block) ==
    [kind |-> "IfStmt", condition |-> condition, then_block |-> then_block,
     else_block |-> else_block]

\* the String declaration branch of a RawStmt: controller_base, the variable
\* before .getText() with "edit" and "Edit" removed
ControllerBase(piece) ==
    CASE piece = "String s = edit.getText()" -> ""
      [] piece = "String s = editTitle.getText()" -> "Title"
      [] OTHER -> piece

\* is the text a String declaration that reads getText()
IsGetTextDecl(txt) ==
    Len(txt) = 1 /\ txt[1] \in {"String s = edit.getText()",
                                "String s = editTitle.getText()"}

\* _java_ast_block_to_dart, RawStmt: the lines it appends, by the order of
\* its branches.  The if texts of the model are cut at their first ";", so
\* the pattern of the re-parse finds no complete if statement in them; a
\* text that ends in finish() is taken for the call.
RawStmtLines(txt) ==
    LET LowerFirst(base) == CASE base = "Title" -> "title" [] OTHER -> base
    IN IF txt = <<"}">> THEN <<>>
       ELSE IF txt[1] = "if" /\ \E n \in 1..Len(txt) : txt[n] = "{" THEN <<>>
       ELSE IF IsGetTextDecl(txt)
       THEN <<"String s = _" \o LowerFirst(ControllerBase(txt[1])) \o "Controller.text;">>
       ELSE IF txt[Len(txt)] = "finish" THEN <<"Navigator.maybePop(context);">>
       ELSE IF txt = <<"return">> THEN <<"return;">>
       ELSE <<>>

\* "  " + ln for every line
Indented(lines) == [n \in 1..Len(lines) |-> "  " \o lines[n]]

RECURSIVE DartLinesOf(_), java_ast_block_to_dart(_)
\* _java_ast_block_to_dart on one statement: the lines it appends; the
\* blocks of the model hold no startActivity call
DartLinesOf(stmt) ==
    CASE stmt.kind = "MethodCall" ->
           \* the branches in the order of the elif chain: "finish" in
           \* target and not args; "finishAffinity" in target; a word
           \* without arguments
           IF stmt.target \in {"finish", "finishAffinity"} /\ stmt.args = ""
           THEN <<"Navigator.maybePop(context);">>
           ELSE IF stmt.target = "finishAffinity"
           THEN <<"Navigator.popUntil(context, (route) => route.isFirst);">>
           ELSE IF stmt.args = ""
           THEN <<"setState(() { _" \o stmt.target \o "(); });">>
           ELSE <<>>
      [] stmt.kind = "IfStmt" ->
           LET cond == IF stmt.condition = "" THEN "/* condition */"
                       ELSE IF stmt.condition = "isTaskRoot()"
                       THEN "!Navigator.canPop(context)" ELSE stmt.condition
               inner == java_ast_block_to_dart(stmt.then_block)
               returns == {n \in 1..Len(inner) : inner[n] = "return;"}
               first == CHOOSE n \in returns : \A k \in returns : n <= k
               else_lines ==
                 IF stmt.else_block # <<>>
                 THEN <<"else {">>
                        \o Indented(java_ast_block_to_dart(stmt.else_block[1]))
                        \o <<"}">>
                 ELSE <<>>
           IN IF returns # {}
              THEN <<"if (" \o cond \o ") {">> \o Indented(SubSeq(inner, 1, first))
                     \o <<"}">>
              ELSE <<"if (" \o cond \o ") {">> \o Indented(inner) \o <<"}">>
                     \o else_lines
      [] OTHER -> RawStmtLines(stmt.text)

java_ast_block_to_dart(ast) ==
    IF ast = <<>> THEN <<>>
    ELSE DartLinesOf(Head(ast)) \o java_ast_block_to_dart(Tail(ast))

\* does _java_ast_block_to_dart raise on the block: controller_base[0] of an
\* empty controller_base (IndexError); an else block is not lowered after a
\* return in the then block
RECURSIVE LoweringRaises(_)
LoweringRaises(ast) ==
    \E n \in 1..Len(ast) :
       \/ /\ ast[n].kind = "RawStmt"
          /\ IsGetTextDecl(ast[n].text)
          /\ ControllerBase(ast[n].text[1]) = ""
       \/ /\ ast[n].kind = "IfStmt"
          /\ \/ LoweringRaises(ast[n].then_block)
             \/ /\ ast[n].else_block # <<>>
                /\ \A k \in 1..Len(java_ast_block_to_dart(ast[n].then_block)) :
                      java_ast_block_to_dart(ast[n].then_block)[k] # "return;"
                /\ LoweringRaises(ast[n].else_block[1])

\* str.lower, str.capitalize, _to_camel, _to_snake and "first letter upper"
\* on the identifiers of the model
Lower(str) == CASE str = "btnOk" -> "btnok" [] OTHER -> str
Capitalize(str) ==
    CASE str = "submit" -> "Submit" [] str = "btn_ok" -> "Btn_ok"
      [] str = "ghost" -> "Ghost" [] str = "title" -> "Title"
      [] str = "container" -> "Container" [] str = "btnOk" -> "Btnok"
      [] OTHER -> str
to_camel(str) == CASE str = "btn_ok" -> "btnOk" [] OTHER -> str
to_snake(str) == CASE str = "btnOk" -> "btn_ok" [] OTHER -> str
UpperFirst(str) ==
    CASE str = "submit" -> "Submit" [] str = "btn_ok" -> "Btn_ok"
      [] str = "btnOk" -> "BtnOk" [] str = "ghost" -> "Ghost"
      [] str = "send" -> "Send" [] OTHER -> str
\* camel[2:] of an android:onClick method name that starts with "on"
StripOn(str) == CASE str = "onSend" -> "Send" [] OTHER -> str

handler_key_candidates(xml_id) ==
    <<xml_id, Lower(xml_id), Capitalize(xml_id), to_camel(xml_id), to_snake(xml_id)>>
LogicKeys == UNION {{handler_key_candidates(i)[n] : n \in 1..5} : i \in Ids}

PressedName(camel) ==
    IF camel = "" THEN <<"_onUnknownPressed">>
    ELSE <<"_on", UpperFirst(camel), "Pressed">>

\* _register_logic_keys
register_logic_keys(map, xml_id, func_name) ==
    [k \in DOMAIN map |->
        IF \E n \in 1..5 : handler_key_candidates(xml_id)[n] = k
        THEN func_name ELSE map[k]]

\* _build_logic_and_handlers, 6-1 and 6-2, for the ids in the sequence order;
\* every layout id is the id of a Button without android:onClick
RECURSIVE RegisterAll(_, _, _)
RegisterAll(map, order, by_id) ==
    IF order = <<>> THEN map
    ELSE LET base == Head(order)
             func_name == IF by_id[base] # <<>> THEN PressedName(base)
                          ELSE PressedName(to_camel(base))
         IN RegisterAll(register_logic_keys(map, base, func_name), Tail(order), by_id)

\* the items of handlers_by_id in dict order (6-1), then the remaining
\* Button ids in the order of the layout (6-2)
LogicOrder(ids, by_id, order) ==
    LET all == <<"submit", "btn_ok", "btnOk", "ghost">>
    IN order \o SelectSeq(all, LAMBDA i : i \in ids /\ by_id[i] = <<>>)

HandlerFuncs(ids, by_id) ==
    {[name |-> PressedName(i), body |-> java_ast_block_to_dart(by_id[i][1].ast)] :
        i \in {j \in ids : by_id[j] # <<>>
                           /\ java_ast_block_to_dart(by_id[j][1].ast) # <<>>}}

\* java_methods, the dict generate_dart_code passes on: method names and
\* bodies in dict order; {} when java_root is missing
JavaMethodLists ==
    LET Method(name, body) == [name |-> name, body |-> body]
    IN {<<>>,
        <<Method("onCreate", <<"setContentView">>)>>,
        <<Method("onCreate", <<"setContentView">>), Method("doWork", <<"finish">>)>>}

\* _build_logic_and_handlers, 6-3: has_buttons_or_handlers
HasButtonsOrHandlers(ids, by_id) == HandlerFuncs(ids, by_id) # {} \/ ids # {}

\* _build_logic_and_handlers, 6-3: the loop over java_methods only skips, the
\* statements after it lower method_body, the body of the last method
MethodFuncs(ids, by_id, java_methods) ==
    LET last == java_methods[Len(java_methods)]
        method_dart_body == java_ast_block_to_dart(parse_block_to_ast(last.body))
    IN IF HasButtonsOrHandlers(ids, by_id) /\ method_dart_body # <<>>
       THEN {[name |-> <<"_", last.name>>, body |-> method_dart_body]}
       ELSE {}

\* view_rules._find_handler: the first candidate key the map holds
find_handler(map, xml_id) ==
    LET cands == handler_key_candidates(xml_id)
        hits == SelectSeq(cands, LAMBDA k : k \in DOMAIN map /\ map[k] # None)
    IN IF xml_id = "" \/ hits = <<>> THEN None ELSE map[hits[1]]

\* the handler a Button's onPressed calls
ButtonHandlerName(xml_id, xml_onclick, map) ==
    IF xml_onclick # "" THEN PressedName(to_camel(StripOn(xml_onclick)))
    ELSE IF find_handler(map, xml_id) # None THEN find_handler(map, xml_id)
    ELSE PressedName(to_camel(xml_id))

HdlIdle ==
    /\ hphase = "idle"
    /\ id_set = {}
    /\ java_src = NoSource
    /\ handlers = <<>>
    /\ handlers_by_id = [i \in Ids |-> <<>>]
    /\ id_order = <<>>
    /\ filesRead = 0
    /\ logic_map = [k \in LogicKeys |-> None]
    /\ handler_funcs = {}
    /\ button = [id |-> "", onClick |-> "", onPressed |-> None]

\* extract_click_handlers starts: id_set = set(xml_ids), handlers_by_id = {}
HdlInit ==
    /\ hphase = "closed"
    /\ id_set \in IdSets
    /\ java_src = NoSource
    /\ handlers = <<>>
    /\ handlers_by_id = [i \in Ids |-> <<>>]
    /\ id_order = <<>>
    /\ filesRead = 0
    /\ logic_map = [k \in LogicKeys |-> None]
    /\ handler_funcs = {}
    /\ button = [id |-> "", onClick |-> "", onPressed |-> None]

\* one file of java_files: read_text, _collect_var_to_id, _extract_handlers_from_src
ReadJavaFile(src) ==
    /\ hphase = "closed"
    /\ filesRead < MaxFiles
    /\ hphase' = "extracted"
    /\ java_src' = src
    /\ handlers' = extract_handlers_from_src(src.sites,
                        collect_var_to_id(src.bindings, id_set), id_set)
    /\ filesRead' = filesRead + 1
    /\ UNCHANGED <<id_set, handlers_by_id, id_order, logicVars, nonHdlVars>>

\* the same file: its handlers go into handlers_by_id
MergeFileHandlers ==
    /\ hphase = "extracted"
    /\ hphase' = "closed"
    /\ handlers_by_id' = MergeHandlers(handlers_by_id, handlers)
    /\ id_order' =
         LET first == SelectSeq([n \in 1..Len(handlers) |-> n],
                        LAMBDA n : /\ handlers[n].view_ids # <<>>
                                   /\ handlers_by_id[handlers[n].view_ids[1]] = <<>>
                                   /\ \A k \in 1..(n - 1) :
                                         handlers[k].view_ids # handlers[n].view_ids)
         IN id_order \o [n \in 1..Len(first) |-> handlers[first[n]].view_ids[1]]
    /\ java_src' = NoSource
    /\ handlers' = <<>>
    /\ UNCHANGED <<id_set, filesRead, logicVars, nonHdlVars>>

\* _build_logic_and_handlers on the handlers of all files; without a
\* java_root no file is read and java_methods stays {}.  With buttons or
\* handlers and no method, 6-3 reads method_body before any assignment
\* (UnboundLocalError): the call raises and returns nothing.
BuildLogicAndHandlers(java_methods) ==
    /\ hphase = "closed"
    /\ filesRead = 0 => java_methods = <<>>
    /\ IF HasButtonsOrHandlers(id_set, handlers_by_id) /\ java_methods = <<>>
       THEN /\ hphase' = "raised"
            /\ UNCHANGED <<logic_map, handler_funcs>>
       ELSE /\ hphase' = "built"
            /\ logic_map' = RegisterAll(logic_map, LogicOrder(id_set, handlers_by_id, id_order),
                                        handlers_by_id)
            /\ handler_funcs' = HandlerFuncs(id_set, handlers_by_id)
                                   \cup MethodFuncs(id_set, handlers_by_id, java_methods)
    /\ UNCHANGED <<extractVars, button, nonHdlVars>>

\* translate_view on a Button with this id and android:onClick ("" for none)
TranslateButton(xml_id, xml_onclick) ==
    /\ hphase = "built"
    /\ xml_id \in id_set
    /\ button' = [id |-> xml_id, onClick |-> xml_onclick,
                  onPressed |-> ButtonHandlerName(xml_id, xml_onclick, logic_map)]
    /\ UNCHANGED <<hphase, extractVars, logic_map, handler_funcs, nonHdlVars>>

(***************************************************************************)
(* generator: backgrounds of the layout directory's files merged into the *)
(* primary layout.  parse_layout_xml returns a "document" node, which     *)
(* has no "attrs" entry, around the file's root element.  An element's    *)
(* attrs are a record of the two attributes the merge reads; Absent       *)
(* stands for a missing attribute, "" for an empty one.                    *)
(***************************************************************************)
Absent == "<absent>"

\* the most children of a modelled root element, the most sibling files read
MaxKids == 1
MaxLayoutFiles == 2

Attrs(id, background) == [id |-> id, background |-> background]
Element(type, attrs, children) ==
    [type |-> type, attrs |-> attrs, children |-> children]

\* parse_layout_xml: the document node around the root element
parse_layout_xml(root) == [type |-> "document", children |-> <<root>>]

\* the layout files: a LinearLayout root with up to MaxKids TextView children
LayoutFiles ==
    LET RootAttrs ==
          {Attrs(i, b) : i \in {Absent, "@+id/panel"},
                         b \in {Absent, "@color/red", "@color/blue"}}
        KidAttrs ==
          {Attrs(i, b) : i \in {"@+id/panel", "@+id/title"},
                         b \in {Absent, "@color/red"}}
            \cup {Attrs("@+id/title", "")}
        Kids == {Element("TextView", a, <<>>) : a \in KidAttrs}
        KidLists == UNION {[1..n -> Kids] : n \in 0..MaxKids}
        RootElements ==
          {Element("LinearLayout", a, ks) : a \in RootAttrs, ks \in KidLists}
    IN {parse_layout_xml(root) : root \in RootElements}

NoAttrs == Attrs(Absent, Absent)

\* node.get("attrs") or {}
AttrsOf(node) == IF "attrs" \in DOMAIN node THEN node.attrs ELSE NoAttrs

\* attrs.get(name), falsy for a missing and for an empty attribute
Truthy(value) == value # Absent /\ value # ""

\* raw_id.split("/")[-1]
IdKey(raw_id) ==
    CASE raw_id = "@+id/panel" -> "panel"
      [] raw_id = "@+id/title" -> "title"
      [] OTHER -> raw_id

BgKeys == {"__root__", "panel", "title"}

\* bg_map.setdefault(key, {}).setdefault("background", bg); "" is "no entry"
SetDefaultBg(map, key, bg) == IF map[key] = "" THEN [map EXCEPT ![key] = bg] ELSE map

\* _collect_backgrounds_from_ir on one node, before its children
CollectNode(node, map, is_root) ==
    LET attrs == AttrsOf(node)
        rooted == IF is_root /\ Truthy(attrs.background)
                  THEN SetDefaultBg(map, "__root__", attrs.background)
                  ELSE map
    IN IF Truthy(attrs.id) /\ Truthy(attrs.background)
       THEN SetDefaultBg(rooted, IdKey(attrs.id), attrs.background)
       ELSE rooted

RECURSIVE collect_backgrounds_from_ir(_, _, _)
RECURSIVE CollectChildren(_, _)
collect_backgrounds_from_ir(node, map, is_root) ==
    CollectChildren(node.children, CollectNode(node, map, is_root))
CollectChildren(children, map) ==
    IF children = <<>> THEN map
    ELSE CollectChildren(Tail(children),
                         collect_backgrounds_from_ir(Head(children), map, FALSE))

\* attrs["background"] = bg on the dict "node.get('attrs') or {}": the node
\* changes only if it has a non-empty attrs dict
SetBackground(node, bg) ==
    IF "attrs" \in DOMAIN node /\ node.attrs # NoAttrs
    THEN [node EXCEPT !.attrs.background = bg]
    ELSE node

\* one node of _walk without the test "background" not in attrs
MergeNode_Overwrite(node, map) ==
    LET attrs == AttrsOf(node)
        key == IdKey(attrs.id)
    IN IF Truthy(attrs.id) /\ key \in DOMAIN map /\ map[key] # ""
       THEN SetBackground(node, map[key])
       ELSE node

\* one node of _walk in _merge_backgrounds_into_main
MergeNode(node, map) ==
    LET attrs == AttrsOf(node)
        key == IdKey(attrs.id)
    IN IF Truthy(attrs.id) /\ key \in DOMAIN map /\ map[key] # ""
          /\ attrs.background = Absent
       THEN SetBackground(node, map[key])
       ELSE node

\* _walk of _merge_backgrounds_into_main
RECURSIVE MergeWalk(_, _)
MergeWalk(node, map) ==
    [MergeNode(node, map) EXCEPT !.children =
        [n \in 1..Len(node.children) |-> MergeWalk(node.children[n], map)]]

\* _merge_backgrounds_into_main: the "__root__" entry goes to main_ir itself,
\* then the walk over every node
merge_backgrounds_into_main(main_ir, map) ==
    LET rooted == IF AttrsOf(main_ir).background = Absent /\ map["__root__"] # ""
                  THEN SetBackground(main_ir, map["__root__"])
                  ELSE main_ir
    IN MergeWalk(rooted, map)

\* the keys _merge_backgrounds_into_main reports as applied
RECURSIVE AppliedIn(_, _)
AppliedIn(node, map) ==
    LET attrs == AttrsOf(node)
        key == IdKey(attrs.id)
        here == IF Truthy(attrs.id) /\ key \in DOMAIN map /\ map[key] # ""
                   /\ attrs.background = Absent
                THEN {key} ELSE {}
    IN here \cup UNION {AppliedIn(node.children[n], map) : n \in 1..Len(node.children)}
AppliedKeys(main_ir, map) ==
    (IF AttrsOf(main_ir).background = Absent /\ map["__root__"] # ""
     THEN {"__root__"} ELSE {})
        \cup AppliedIn(main_ir, map)

\* what the resolver makes of the background value step 5 reads: is there a
\* resolver, the path resolve_drawable_path returns ("" for None), the
\* BoxDecoration a shape drawable parses to ("" for None), and the colour
\* android_color_to_flutter returns for the resolved value ("" for None)
RootResolutions ==
    LET Res(resolver, path, decoration, color) ==
          [resolver |-> resolver, drawable_path |-> path,
           decoration |-> decoration, color |-> color]
    IN {Res(FALSE, "", "", ""), Res(TRUE, "", "", ""),
        Res(TRUE, "", "", "0xFFFF0000"),
        Res(TRUE, "res/drawable/bg.png", "", ""),
        Res(TRUE, "res/drawable/bg.xml", "BoxDecoration(...)", ""),
        Res(TRUE, "res/drawable/bg.xml", "", "")}

BgIdle ==
    /\ bphase = "idle"
    /\ xml_ir = parse_layout_xml(Element("LinearLayout", NoAttrs, <<>>))
    /\ bg_map = [k \in BgKeys |-> ""]
    /\ layoutFilesRead = 0
    /\ primaryRead = FALSE
    /\ primary_root_bg = Absent
    /\ sibling_root_bg = ""
    /\ applied_backgrounds = {}
    /\ scaffold_bg = [res |-> <<>>, color |-> "", image |-> "", decoration |-> ""]

\* generate_dart_code, step 1: the primary layout is parsed
BgInit ==
    /\ bphase = "collecting"
    /\ xml_ir \in LayoutFiles
    /\ bg_map = [k \in BgKeys |-> ""]
    /\ layoutFilesRead = 0
    /\ primaryRead = FALSE
    /\ primary_root_bg = xml_ir.children[1].attrs.background
    /\ sibling_root_bg = ""
    /\ applied_backgrounds = {}
    /\ scaffold_bg = [res |-> <<>>, color |-> "", image |-> "", decoration |-> ""]

\* generate_dart_code, step 2, one .xml file of the layout directory other
\* than the primary one; sibling_root_bg records the first background a
\* sibling's root element declares
CollectSiblingFile(sub_ir) ==
    /\ bphase = "collecting"
    /\ layoutFilesRead < MaxLayoutFiles
    /\ bg_map' = collect_backgrounds_from_ir(sub_ir, bg_map, TRUE)
    /\ layoutFilesRead' = layoutFilesRead + 1
    /\ sibling_root_bg' =
         IF sibling_root_bg = "" /\ Truthy(sub_ir.children[1].attrs.background)
         THEN sub_ir.children[1].attrs.background
         ELSE sibling_root_bg
    /\ UNCHANGED <<bphase, xml_ir, primaryRead, primary_root_bg,
                   applied_backgrounds, scaffold_bg, nonBgVars>>

\* the same loop reaching the primary file itself, which lies in the directory
CollectPrimaryFile ==
    /\ bphase = "collecting"
    /\ ~primaryRead
    /\ primaryRead' = TRUE
    /\ bg_map' = collect_backgrounds_from_ir(xml_ir, bg_map, TRUE)
    /\ UNCHANGED <<bphase, xml_ir, layoutFilesRead, primary_root_bg, sibling_root_bg,
                   applied_backgrounds, scaffold_bg, nonBgVars>>

\* applied_backgrounds = _merge_backgrounds_into_main(xml_ir, bg_map), after the
\* loop has read every file of the directory, the primary one among them, or
\* none at all (the layout's directory name is empty)
MergeBackgrounds ==
    /\ bphase = "collecting"
    /\ primaryRead \/ layoutFilesRead = 0
    /\ bphase' = "merged"
    /\ xml_ir' = merge_backgrounds_into_main(xml_ir, bg_map)
    /\ applied_backgrounds' = AppliedKeys(xml_ir, bg_map)
    /\ UNCHANGED <<bg_map, layoutFilesRead, primaryRead, primary_root_bg,
                   sibling_root_bg, scaffold_bg, nonBgVars>>

\* generate_dart_code, step 5: the background of unified.xml_ir, the node
\* parse_layout_xml returned, becomes root_bg_color, root_bg_image or
\* root_bg_decoration and leaves the node's attrs; without any of them
\* root_bg_color is white.  res is recorded with the decision.
HoistRootBackground(res) ==
    /\ bphase = "merged"
    /\ bphase' = "hoisted"
    /\ LET root_attrs == AttrsOf(xml_ir)
           root_bg_raw == root_attrs.background
           reads == Truthy(root_bg_raw) /\ res.resolver
           is_xml == res.drawable_path = "res/drawable/bg.xml"
           decoration == IF reads /\ res.drawable_path # "" /\ is_xml
                         THEN res.decoration ELSE ""
           image == IF reads /\ res.drawable_path # "" /\ ~is_xml
                    THEN "assets/images/bg.png" ELSE ""
           color == IF reads /\ res.drawable_path = "" THEN res.color ELSE ""
           hoisted == decoration # "" \/ image # "" \/ color # ""
       IN /\ scaffold_bg' =
               [res |-> <<res>>, image |-> image, decoration |-> decoration,
                color |-> IF hoisted THEN color ELSE "0xFFFFFFFF"]
          /\ xml_ir' = IF hoisted
                       THEN [type |-> xml_ir.type, children |-> xml_ir.children,
                             attrs |-> [root_attrs EXCEPT !.background = Absent]]
                       ELSE xml_ir
    /\ UNCHANGED <<bg_map, layoutFilesRead, primaryRead, primary_root_bg,
                   sibling_root_bg, applied_backgrounds, nonBgVars>>

(***************************************************************************)
(* layout_rules / view_rules: translate_node on a tree of LinearLayout,   *)
(* FrameLayout and TextView elements.  An element's attrs are a record of *)
(* the attributes these rules read; text and background are resource      *)
(* strings (Lit or Ref), "" or None stands for a missing attribute.  A    *)
(* widget expression is a record: the widget's name, the string literal   *)
(* it carries, its other arguments, and its child expressions.  The       *)
(* elements carry no padding, margin, text-style or click attribute.      *)
(***************************************************************************)
\* the most children of a modelled LinearLayout
MaxChildren == 2

ViewAttrs(id, text, orientation, gravity, layout_width, layout_height, background) ==
    [id |-> id, text |-> text, orientation |-> orientation, gravity |-> gravity,
     layout_width |-> layout_width, layout_height |-> layout_height,
     background |-> background]
View(type, attrs, children) == [type |-> type, attrs |-> attrs, children |-> children]

NoViewAttrs == ViewAttrs("", Lit(""), Absent, "", "", "", None)

\* node.get("attrs", {}) or {}
AttrsOfView(node) == IF "attrs" \in DOMAIN node THEN node.attrs ELSE NoViewAttrs

\* the nodes translate_node is called on: a LinearLayout with up to
\* MaxChildren TextView and empty FrameLayout children, a FrameLayout, a
\* ListView or ScrollView with up to MaxChildren children, a LinearLayout
\* with comments and processing instructions among its children (nodes of
\* type comment and pi, as _convert_node builds them), or a document with
\* a comment or processing instruction before or after its root element,
\* or a RelativeLayout whose TextView children carry, or do not carry, an
\* id (also the same id twice), a layout_below reference (to a sibling, to
\* each other, to no element) and layout_alignParentLeft, or a LinearLayout
\* around a LinearLayout of layout_width match_parent around a TextView, or
\* a Button with or without a background
LayoutNodes ==
    LET Plain(i, t) == ViewAttrs(i, t, Absent, "", "", "", None)
        TextViews ==
          {View("TextView", Plain(i, t), <<>>) :
              i \in {"", "@+id/title"},
              t \in {Lit(""), Lit("Hello"), Lit("Say \"hi\""), Ref("string", "greeting")}}
            \cup {View("TextView",
                       ViewAttrs("", Lit("Hello"), Absent, "", "", "match_parent",
                                 Ref("color", "accent")), <<>>),
                  View("TextView",
                       ViewAttrs("", Lit("Hello"), Absent, "", "match_parent", "", None),
                       <<>>)}
        EmptyFrames ==
          {View("FrameLayout", Plain(i, Lit("")), <<>>) : i \in {"", "@+id/container"}}
        FilledFrames ==
          {View("FrameLayout", Plain(i, Lit("")),
                <<View("TextView", Plain("", Lit("Hello")), <<>>)>>) :
              i \in {"", "@+id/container"}}
        Children == TextViews \cup {f \in EmptyFrames : f.attrs.id # ""}
        ChildLists == UNION {[1..n -> Children] : n \in 0..MaxChildren}
        LinearLayouts ==
          {View("LinearLayout", ViewAttrs("", Lit(""), o, g, "", "", b), chs) :
              o \in {Absent, "vertical", "horizontal"}, g \in {"", "center"},
              b \in {None, Lit("#111111")}, chs \in ChildLists}
        ScrollItems ==
          {View("TextView", Plain("", Lit("Hello")), <<>>),
           View("LinearLayout", Plain("", Lit("")),
                <<View("TextView", Plain("", Lit("Hello")), <<>>)>>)}
        Scrollers ==
          {View(t, Plain("", Lit("")), chs) :
              t \in {"ListView", "ScrollView"},
              chs \in UNION {[1..n -> ScrollItems] : n \in 0..MaxChildren}}
        Hello == View("TextView", Plain("", Lit("Hello")), <<>>)
        Comment == View("comment", NoViewAttrs, <<>>)
        PI == View("pi", NoViewAttrs, <<>>)
        WithMarkup ==
          {View("LinearLayout", Plain("", Lit("")), chs) :
              chs \in UNION {[1..n -> {Comment, PI, Hello}] : n \in 1..MaxChildren}}
        Documents ==
          {[type |-> "document",
            children |-> before \o <<View("LinearLayout", NoViewAttrs, <<Hello>>)>>
                           \o after] :
              before \in {<<>>, <<Comment>>, <<PI>>}, after \in {<<>>, <<Comment>>}}
        Anchored(i, below, left) ==
          View("TextView",
               [layout_below |-> below, layout_alignParentLeft |-> left]
                  @@ Plain(i, Lit("")), <<>>)
        RelChildren ==
          {Anchored(i, below, "") :
              i \in {"", "@+id/title", "@+id/container"},
              below \in {"", "@id/title", "@id/container", "@id/gone"}}
            \cup {Anchored("", "", "true")}
        RelativeLayouts ==
          {View("RelativeLayout", Plain("", Lit("")), chs) :
              chs \in UNION {[1..n -> RelChildren] : n \in 1..MaxChildren}}
        Nested ==
          {View("LinearLayout", Plain("", Lit("")),
                <<View("LinearLayout",
                       ViewAttrs("", Lit(""), Absent, "", "match_parent", "", None),
                       <<View("TextView",
                              ViewAttrs("", Lit("Hello"), Absent, "", "", h, None),
                              <<>>)>>)>>) : h \in {"", "match_parent"}}
        Buttons ==
          {View("Button", ViewAttrs("", t, Absent, "", "", "", b), <<>>) :
              t \in {Lit(""), Lit("OK")},
              b \in {None, Lit("#111111"), Ref("color", "accent")}}
    IN LinearLayouts \cup EmptyFrames \cup FilledFrames \cup Scrollers
         \cup WithMarkup \cup Documents \cup RelativeLayouts \cup Nested
         \cup Buttons

\* the fragment's layout file, as parse_layout_xml returns it
FragmentTree ==
    [type |-> "document",
     children |-> <<View("LinearLayout", NoViewAttrs,
                      <<View("TextView",
                             ViewAttrs("", Lit("Home"), Absent, "", "", "", None),
                             <<>>)>>)>>]

\* fragments_by_id: was the argument given, and the FragmentIR of each id
FragmentIds == {"container", "other"}
FragmentIR(fragment_class, layout_file) ==
    [fragment_class |-> fragment_class, layout_file |-> layout_file]
NoFragments == [i \in FragmentIds |-> <<>>]
FragmentMaps ==
    {[given |-> FALSE, entries |-> NoFragments],
     [given |-> TRUE, entries |-> NoFragments],
     [given |-> TRUE,
      entries |-> [NoFragments EXCEPT
                     !["other"] = <<FragmentIR("OtherFragment", "fragment_other.xml")>>]],
     [given |-> TRUE,
      entries |-> [NoFragments EXCEPT
                     !["container"] = <<FragmentIR("HomeFragment", "fragment_home.xml")>>]],
     [given |-> TRUE,
      entries |-> [NoFragments EXCEPT
                     !["container"] = <<FragmentIR("HomeFragment", "")>>]]}

\* "if fragments_by_id": neither None nor an empty dict
HasFragments(frags) == frags.given /\ \E i \in FragmentIds : frags.entries[i] # <<>>

Widget(w, label, props, children) ==
    [w |-> w, label |-> label, props |-> props, children |-> children]
Wrap(w, props, child) == Widget(w, None, props, <<child>>)

\* view_rules._id_base and raw_id.split("/")[-1]
id_base(v) ==
    CASE v = "@+id/title" -> "title"
      [] v = "@+id/container" -> "container"
      [] v = "@id/title" -> "title"
      [] v = "@id/container" -> "container"
      [] v = "@id/gone" -> "gone"
      [] OTHER -> v

\* utils.escape_dart on the texts of the model: backslash before each quote
EscapeChunk(chunk) ==
    CASE chunk = "Say \"hi\"" -> "Say \\\"hi\\\""
      [] OTHER -> chunk
escape_dart(s) == [n \in 1..Len(s) |-> EscapeChunk(s[n])]

\* ResourceResolver.resolve_drawable_path
resolve_drawable_path(val) ==
    IF val # None /\ StartsWithRef(val, "drawable") /\ Has(drawables, KeyOf(val))
    THEN drawables[KeyOf(val)] ELSE None

\* the characters of a background value, as android_color_to_flutter reads them
CharsOf(val) ==
    CASE val = Lit("#111111") -> <<"#", "1", "1", "1", "1", "1", "1">>
      [] val = Lit("#222222") -> <<"#", "2", "2", "2", "2", "2", "2">>
      [] StartsWithRef(val, "color") -> <<"@", "c">>
      [] OTHER -> <<>>

\* utils.apply_layout_modifiers: the background wrapper
apply_layout_modifiers(wd, attrs) ==
    LET bg_raw == attrs.background
        drawable_path == IF has_resolver THEN resolve_drawable_path(bg_raw) ELSE None
        resolved_bg == IF has_resolver /\ resolve(bg_raw) \notin {None, Lit("")}
                       THEN resolve(bg_raw) ELSE bg_raw
        color_hex == android_color_to_flutter(CharsOf(resolved_bg))
    IN IF bg_raw \in {None, Lit("")} THEN wd
       ELSE IF drawable_path # None THEN Wrap("Container", <<"decoration">>, wd)
       ELSE IF color_hex # None THEN Wrap("Container", <<"color">> \o color_hex, wd)
       ELSE Wrap("Todo", <<"background">>, wd)

\* the text a TextView's label shows, without the resolver lookup
TextViewText_Unresolved(text_raw, xml_id) ==
    IF text_raw = Lit("") /\ xml_id # "" THEN <<"[", xml_id, "]">> ELSE text_raw

\* the text a TextView's label shows
TextViewText(text_raw, xml_id) ==
    LET text == IF has_resolver THEN resolve(text_raw) ELSE text_raw
    IN IF text = Lit("") /\ xml_id # "" THEN <<"[", xml_id, "]">> ELSE text

\* translate_view, TextView
TranslateTextView(attrs) ==
    LET xml_id == id_base(attrs.id)
        handler_name == find_handler(logic_map, xml_id)
        body == Widget("Text", escape_dart(TextViewText(attrs.text, xml_id)), <<>>, <<>>)
    IN apply_layout_modifiers(
           IF handler_name # None THEN Wrap("InkWell", handler_name, body) ELSE body,
           attrs)

\* translate_view, Button (without textColor, backgroundTint and onClick):
\* props are the onPressed handler and the backgroundColor of the style
TranslateButtonView(attrs) ==
    LET xml_id == id_base(attrs.id)
        resolved_label == IF has_resolver THEN resolve(attrs.text) ELSE attrs.text
        label == IF resolved_label \in {None, Lit("")} THEN Lit("Button")
                 ELSE resolved_label
        bg_raw == attrs.background
        resolved_bg == IF has_resolver /\ resolve(bg_raw) \notin {None, Lit("")}
                       THEN resolve(bg_raw) ELSE bg_raw
        bg_color_hex == android_color_to_flutter(CharsOf(resolved_bg))
        style_part == IF bg_raw \notin {None, Lit("")} /\ bg_color_hex # None
                      THEN bg_color_hex ELSE <<"Colors.grey.shade300">>
    IN apply_layout_modifiers(
           Widget("ElevatedButton", escape_dart(label),
                  <<"onPressed">> \o ButtonHandlerName(xml_id, "", logic_map)
                     \o <<"backgroundColor">> \o style_part, <<>>),
           attrs)

\* translate_view, fallback for a type without a rule and without custom-view
\* information (of the modelled types: document)
TranslateFallback(attrs, dart_children) ==
    LET child_code ==
          IF Len(dart_children) = 1 THEN dart_children[1]
          ELSE IF Len(dart_children) > 1 THEN Widget("Column", None, <<>>, dart_children)
          ELSE Widget("SizedBox.shrink", None, <<>>, <<>>)
    IN apply_layout_modifiers(Wrap("Container", <<"decoration">>, child_code), attrs)

\* "Expanded" in code
RECURSIVE ContainsExpanded(_)
ContainsExpanded(wd) ==
    \/ wd.w = "Expanded"
    \/ \E n \in 1..Len(wd.children) : ContainsExpanded(wd.children[n])

\* _wrap_match_parent_for_linear without the Expanded of the horizontal branch
wrap_match_parent_for_linear_VerticalOnly(child_code, child_attrs, parent_orientation) ==
    LET w == Lower(child_attrs.layout_width)
        h == Lower(child_attrs.layout_height)
        expanded == IF h = "match_parent" THEN Wrap("Expanded", <<>>, child_code)
                    ELSE child_code
    IN IF parent_orientation = "vertical"
       THEN IF w = "match_parent" /\ ~ContainsExpanded(expanded)
            THEN Wrap("SizedBox", <<"width: double.infinity">>, expanded)
            ELSE expanded
       ELSE child_code

\* _wrap_match_parent_for_linear
wrap_match_parent_for_linear(child_code, child_attrs, parent_orientation) ==
    LET w == Lower(child_attrs.layout_width)
        h == Lower(child_attrs.layout_height)
        expanded == IF h = "match_parent" THEN Wrap("Expanded", <<>>, child_code)
                    ELSE child_code
    IN IF parent_orientation = "vertical"
       THEN IF w = "match_parent" /\ ~ContainsExpanded(expanded)
            THEN Wrap("SizedBox", <<"width: double.infinity">>, expanded)
            ELSE expanded
       ELSE IF w = "match_parent" THEN Wrap("Expanded", <<>>, child_code)
            ELSE child_code

\* word in g, for the gravity values of the model
GravityHas(g, word) ==
    CASE g = "center" -> word = "center"
      [] g = "end" -> word = "end"
      [] OTHER -> FALSE

\* _axes_from_gravity_for_linear: <<main, cross>>
axes_from_gravity_for_linear(gravity, orientation, allow_center) ==
    LET g == Lower(gravity)
        main0 == IF GravityHas(g, "center") /\ allow_center
                 THEN "MainAxisAlignment.center" ELSE "MainAxisAlignment.start"
        cross0 == IF GravityHas(g, "center") /\ orientation # "vertical"
                  THEN "CrossAxisAlignment.center" ELSE "CrossAxisAlignment.stretch"
        toEnd == GravityHas(g, "end") \/ GravityHas(g, "right")
        main1 == IF toEnd /\ orientation # "vertical" THEN "MainAxisAlignment.end" ELSE main0
        cross1 == IF toEnd /\ orientation = "vertical" THEN "CrossAxisAlignment.end" ELSE cross0
        toStart == GravityHas(g, "start") \/ GravityHas(g, "left")
    IN <<IF toStart /\ orientation # "vertical" THEN "MainAxisAlignment.start" ELSE main1,
         IF toStart /\ orientation = "vertical" THEN "CrossAxisAlignment.start" ELSE cross1>>

\* translate_layout, LinearLayout: the body before apply_layout_modifiers
LinearLayoutBody(attrs, children, dart_children) ==
    LET orientation == Lower(IF attrs.orientation = Absent THEN "vertical"
                             ELSE attrs.orientation)
        gravity == attrs.gravity
        dart_children_list ==
          [n \in 1..Len(children) |->
              IF Lower(children[n].type) # "view"
              THEN wrap_match_parent_for_linear(dart_children[n],
                                                AttrsOfView(children[n]), orientation)
              ELSE dart_children[n]]
        axes == axes_from_gravity_for_linear(gravity, orientation, FALSE)
        needs_center_wrap == GravityHas(Lower(gravity), "center") /\ orientation = "vertical"
    IN IF orientation = "horizontal"
       THEN Widget("Row", None,
                   <<axes[1], IF axes[2] = "CrossAxisAlignment.stretch"
                              THEN "CrossAxisAlignment.center" ELSE axes[2]>>,
                   dart_children_list)
       ELSE IF needs_center_wrap
       THEN Wrap("Center", <<>>,
                 Widget("Column", None,
                        <<"MainAxisSize.min", "MainAxisAlignment.center", axes[2]>>,
                        dart_children_list))
       ELSE Widget("Column", None, axes, dart_children_list)

\* the diagnostic widgets of the FrameLayout rule: Center(Column(Icon, SizedBox, Text))
Placeholder(message) == Widget("Placeholder", Lit(message), <<>>, <<>>)
EmptyContainerPlaceholder == Placeholder("Empty container detected.")

\* translate_layout, FrameLayout, without the branch "elif not dart_children"
FrameLayoutBody_EmptyStack(attrs, dart_children, fragment_widget) ==
    IF dart_children = <<>> /\ HasFragments(fragments_by_id) /\ attrs.id # ""
       /\ fragments_by_id.entries[id_base(attrs.id)] # <<>>
    THEN fragment_widget
    ELSE Widget("Stack", None, <<>>, dart_children)

\* translate_layout, FrameLayout: the body before apply_layout_modifiers;
\* layout_dir is the directory of the layout, fragment_widget the translation
\* of the fragment's layout file
FrameLayoutBody(attrs, dart_children, fragment_widget) ==
    LET raw_id == attrs.id
        container_id == id_base(raw_id)
        fragment_ir == fragments_by_id.entries[container_id][1]
    IN
    IF dart_children = <<>> /\ HasFragments(fragments_by_id)
    THEN IF raw_id # ""
         THEN IF container_id \in FragmentIds
                 /\ fragments_by_id.entries[container_id] # <<>>
              THEN IF fragment_ir.layout_file # ""
                   THEN IF fragment_file = "missing"
                        THEN Placeholder("Layout file not found")
                        ELSE IF fragment_file = "broken"
                        THEN Placeholder("Failed to load fragment")
                        ELSE fragment_widget
                   ELSE Placeholder("Could not guess layout file name.")
              ELSE EmptyContainerPlaceholder
         ELSE EmptyContainerPlaceholder
    ELSE IF dart_children = <<>> THEN EmptyContainerPlaceholder
    ELSE Widget("Stack", None, <<>>, dart_children)

\* translate_layout, ListView: the body before apply_layout_modifiers; the
\* itemBuilder returns the first child's expression
ListViewBody(children, dart_children) ==
    IF children # <<>>
    THEN Widget("ListView.builder", None, <<"itemCount", ToString(Len(children))>>,
                <<dart_children[1]>>)
    ELSE Widget("ListView.builder", None, <<"itemCount", "0">>,
                <<Widget("SizedBox.shrink", None, <<>>, <<>>)>>)

\* translate_layout, ScrollView: the body before apply_layout_modifiers
ScrollViewBody(dart_children) ==
    Wrap("SingleChildScrollView", <<>>,
         IF Len(dart_children) = 1 THEN dart_children[1]
         ELSE IF Len(dart_children) > 1 THEN Widget("Column", None, <<>>, dart_children)
         ELSE Widget("SizedBox.shrink", None, <<>>, <<>>))

\* _wrap_relative_layout_child, column_cross_axis "stretch": of the
\* attributes it reads the model's children carry layout_alignParentLeft
wrap_relative_layout_child(child_code, child_attrs) ==
    IF "layout_alignParentLeft" \in DOMAIN child_attrs
       /\ Lower(child_attrs.layout_alignParentLeft) = "true"
    THEN Wrap("Align", <<"Alignment.centerLeft">>, child_code)
    ELSE child_code

\* _convert_relative_layout_to_column; dart_children[n] is the child_code
\* translate_node returns for children[n].  A dict is the sequence of its
\* entries in insertion order; the child id None is "".  No child of the
\* model carries layout_centerHorizontal.
convert_relative_layout_to_column(children, dart_children) ==
    LET N == Len(children)
        attr_get(ch, name) == IF name \in DOMAIN ch.attrs THEN ch.attrs[name] ELSE ""
        child_id(p) == id_base(attr_get(children[p], "id"))
        RECURSIVE ChildMap(_)
        ChildMap(n) ==
            IF n = 0 THEN <<>>
            ELSE LET prev == ChildMap(n - 1)
                     key == IF child_id(n) # "" THEN child_id(n)
                            ELSE "_no_id_" \o ToString(Len(prev))
                 IN IF \E i \in DOMAIN prev : prev[i].key = key
                    THEN [i \in DOMAIN prev |->
                            IF prev[i].key = key THEN [key |-> key, pos |-> n]
                            ELSE prev[i]]
                    ELSE Append(prev, [key |-> key, pos |-> n])
        child_map == ChildMap(N)
        Keys == {child_map[i].key : i \in DOMAIN child_map}
        PosOf(key) == child_map[CHOOSE i \in DOMAIN child_map : child_map[i].key = key].pos
        Below == {p \in 1..N : attr_get(children[p], "layout_below") # "" /\ child_id(p) # ""}
        below_keys == {child_id(p) : p \in Below}
        below_map(k) ==
            LET last == CHOOSE p \in Below :
                           child_id(p) = k /\ \A q \in Below : child_id(q) = k => q <= p
            IN id_base(attr_get(children[last], "layout_below"))
        root_ids == Keys \ {below_map(k) : k \in below_keys}
        \* children.index(ch), counted from 0
        index(p) == (CHOOSE q \in 1..p :
                        children[q] = children[p]
                        /\ \A r \in 1..p : children[r] = children[p] => q <= r) - 1
        loop_id(p) == IF child_id(p) # "" THEN child_id(p)
                      ELSE "_no_id_" \o ToString(index(p))
        Emit(key) == wrap_relative_layout_child(dart_children[PosOf(key)],
                                                children[PosOf(key)].attrs)
        RECURSIVE RowLoop(_, _)
        RowLoop(same, st) ==
            IF same = <<>> THEN st
            ELSE LET below_id == loop_id(Head(same))
                 IN IF below_id \notin st.done /\ below_id \in Keys
                    THEN RowLoop(Tail(same),
                                 [row |-> Append(st.row, Emit(below_id)),
                                  done |-> st.done \cup {below_id}])
                    ELSE RowLoop(Tail(same), st)
        RECURSIVE RootLoop(_)
        RootLoop(n) ==
            IF n = 0 THEN [col |-> <<>>, done |-> {}]
            ELSE LET st == RootLoop(n - 1)
                     id == loop_id(n)
                     same_below_ids ==
                       SortSeq(SelectSeq([p \in 1..N |-> p],
                                         LAMBDA p : loop_id(p) \in below_keys
                                                    /\ below_map(loop_id(p)) = id),
                               LAMBDA p, q : index(p) < index(q))
                     r == RowLoop(same_below_ids,
                                  [row |-> <<>>, done |-> st.done \cup {id}])
                     col1 == Append(st.col, Emit(id))
                 IN IF id \in root_ids /\ id \notin st.done
                    THEN [col |-> IF r.row # <<>>
                                  THEN Append(col1, Widget("Row", None, <<>>, r.row))
                                  ELSE col1,
                          done |-> r.done]
                    ELSE st
        roots == RootLoop(N)
        rest == SelectSeq(child_map, LAMBDA e : e.key \notin roots.done)
        column_children == roots.col \o [i \in 1..Len(rest) |-> Emit(rest[i].key)]
    IN IF column_children # <<>>
       THEN Widget("Column", None, <<"CrossAxisAlignment.stretch">>, column_children)
       ELSE Widget("SizedBox.shrink", None, <<>>, <<>>)

\* translate_layout, RelativeLayout: the body before apply_layout_modifiers
RelativeLayoutBody(children, dart_children) ==
    LET has_layout_below ==
          \E n \in 1..Len(children) :
             "layout_below" \in DOMAIN children[n].attrs
             /\ children[n].attrs.layout_below # ""
    IN IF has_layout_below THEN convert_relative_layout_to_column(children, dart_children)
       ELSE IF dart_children # <<>> THEN Widget("Stack", None, <<>>, dart_children)
       ELSE Widget("SizedBox.shrink", None, <<>>, <<>>)

\* translate_node, for the element types of the model
RECURSIVE translate_node(_)
translate_node(node) ==
    LET t == node.type
        attrs == AttrsOfView(node)
        children == node.children
        dart_children == [n \in 1..Len(children) |-> translate_node(children[n])]
    IN CASE t = "LinearLayout" ->
              apply_layout_modifiers(LinearLayoutBody(attrs, children, dart_children), attrs)
         [] t = "FrameLayout" ->
              apply_layout_modifiers(
                  FrameLayoutBody(attrs, dart_children, translate_node(FragmentTree)),
                  attrs)
         [] t = "ListView" ->
              apply_layout_modifiers(ListViewBody(children, dart_children), attrs)
         [] t = "ScrollView" ->
              apply_layout_modifiers(ScrollViewBody(dart_children), attrs)
         [] t = "RelativeLayout" ->
              apply_layout_modifiers(RelativeLayoutBody(children, dart_children), attrs)
         [] t = "TextView" -> TranslateTextView(attrs)
         [] t = "Button" -> TranslateButtonView(attrs)
         [] OTHER -> TranslateFallback(attrs, dart_children)

NoWidget == Widget("", None, <<>>, <<>>)

LayIdle ==
    /\ lphase = "idle"
    /\ layout_node = View("LinearLayout", NoViewAttrs, <<>>)
    /\ has_resolver = FALSE
    /\ fragments_by_id = [given |-> FALSE, entries |-> NoFragments]
    /\ fragment_file = "missing"
    /\ widget = NoWidget

\* the resolver of a values directory with at most one <string>, or no resolver
ResLoaded ==
    /\ phase = "done"
    /\ colors = EmptyDict(ColorKeys)
    /\ strings \in {EmptyDict(StringKeys),
                    Put(EmptyDict(StringKeys), "greeting", Lit("World")),
                    Put(EmptyDict(StringKeys), "greeting", Lit(""))}
    /\ dimens = EmptyDict(DimenKeys)
    /\ drawables = EmptyDict(DrawableKeys)
    /\ colorFiles = {}
    /\ resolved = [called |-> FALSE, arg |-> None, out |-> None]
    /\ style_out = [called |-> FALSE, textSize |-> None, resolver |-> FALSE, out |-> ""]

\* the arguments of translate_node
LayInit ==
    /\ lphase = "ready"
    /\ layout_node \in LayoutNodes
    /\ has_resolver \in BOOLEAN
    /\ ~has_resolver => strings = EmptyDict(StringKeys)
    /\ fragments_by_id \in FragmentMaps
    /\ fragment_file \in
         IF fragments_by_id.entries["container"] # <<>>
            /\ fragments_by_id.entries["container"][1].layout_file # ""
         THEN {"missing", "broken", "ok"} ELSE {"missing"}
    /\ widget = NoWidget

\* widget_tree = translate_node(node, resolver, ...)
TranslateNode ==
    /\ lphase = "ready"
    /\ lphase' = "translated"
    /\ widget' = translate_node(layout_node)
    /\ UNCHANGED <<layout_node, has_resolver, fragments_by_id, fragment_file, nonLayVars>>

(***************************************************************************)
(* java_parser._parse_block_to_ast and generator._java_ast_block_to_dart  *)
(* on a handler body.  The body text is modelled by what the if pattern   *)
(* finds in it: the statements before an if statement, the if statement's *)
(* condition and branches, and the statements after it.  A statement is   *)
(* its text without the ";".                                               *)
(***************************************************************************)
\* the most statements of the then branch of a modelled if statement
MaxStmts == 2

\* the handler bodies: statements, and at most one if statement
BlockSources ==
    LET Parts == {"finish", "finishAffinity", "doWork", "return",
                  "String s = edit.getText()",
                  "String s = editTitle.getText()"}
        Lists(max) == UNION {[1..n -> Parts] : n \in 0..max}
        Ifs == [cond : {"x > 0", "isTaskRoot()"}, then : Lists(MaxStmts),
                else : Lists(1)]
    IN [before : {<<>>, <<"doWork">>}, ifs : {<<>>} \cup {<<f>> : f \in Ifs},
        tail : {<<>>, <<"finish">>, <<"finishAffinity">>}]

\* the text of an if statement the pattern did not match, as the split at
\* ";" cuts it: pieces of texts, the last piece still open
RECURSIVE SplitStatements(_, _)
SplitStatements(texts, piece) ==
    IF texts = <<>> THEN <<piece>>
    ELSE <<piece \o <<Head(texts)>>>> \o SplitStatements(Tail(texts), <<>>)

\* _parse_block_to_ast.  The if pattern takes the condition up to the first
\* ")" and expects "{" next: an if statement whose condition holds a call is
\* not matched and reaches _append_simple_statements as text, where a piece
\* that starts with "if" or with "}" becomes a RawStmt.
parse_if_block_to_ast(src) ==
    IF src.ifs = <<>> THEN parse_block_to_ast(src.before \o src.tail)
    ELSE LET f == src.ifs[1]
             opened == SplitStatements(f.then, <<"if", f.cond, "{">>)
             then_end == opened[Len(opened)] \o <<"}">>
             closed == IF f.else = <<>>
                       THEN SubSeq(opened, 1, Len(opened) - 1)
                              \o SplitStatements(src.tail, then_end)
                       ELSE LET else_open ==
                                  SplitStatements(f.else, then_end \o <<"else", "{">>)
                            IN SubSeq(opened, 1, Len(opened) - 1)
                                 \o SubSeq(else_open, 1, Len(else_open) - 1)
                                 \o SplitStatements(src.tail,
                                        else_open[Len(else_open)] \o <<"}">>)
             pieces == SelectSeq(closed, LAMBDA p : p # <<>>)
         IN IF f.cond # "isTaskRoot()"
            THEN parse_block_to_ast(src.before)
                   \o <<IfStmt(f.cond, parse_block_to_ast(f.then),
                               IF f.else = <<>> THEN <<>>
                               ELSE <<parse_block_to_ast(f.else)>>)>>
                   \o parse_block_to_ast(src.tail)
            ELSE parse_block_to_ast(src.before)
                   \o [n \in 1..Len(pieces) |->
                         IF Len(pieces[n]) = 1 THEN Statement(pieces[n][1])
                         ELSE [kind |-> "RawStmt", target |-> "", args |-> "",
                               text |-> pieces[n]]]

LowIdle ==
    /\ lowphase = "idle"
    /\ block_src = [before |-> <<>>, ifs |-> <<>>, tail |-> <<>>]
    /\ block_ast = <<>>
    /\ dart_lines = <<>>
    /\ screen_view = ""
    /\ is_stateful = <<>>

\* ast = _parse_block_to_ast(inner)
ParseBlock ==
    /\ lowphase = "source"
    /\ lowphase' = "parsed"
    /\ block_ast' = parse_if_block_to_ast(block_src)
    /\ UNCHANGED <<block_src, dart_lines, screen_view, is_stateful, nonLowVars>>

\* body = _java_ast_block_to_dart(ast, imports): the lines, or the IndexError
LowerBlock ==
    /\ lowphase = "parsed"
    /\ IF LoweringRaises(block_ast)
       THEN lowphase' = "raised" /\ UNCHANGED dart_lines
       ELSE lowphase' = "lowered" /\ dart_lines' = java_ast_block_to_dart(block_ast)
    /\ UNCHANGED <<block_src, block_ast, screen_view, is_stateful, nonLowVars>>

\* _has_text_field on a layout whose one view has type t: the lower-cased
\* type is, or ends with, edittext, checkbox, switch or togglebutton
has_text_field(t) ==
    LET lower == CASE t = "EditText" -> "edittext"
                   [] t = "AppCompatEditText" -> "appcompatedittext"
                   [] t = "Switch" -> "switch"
                   [] t = "RadioButton" -> "radiobutton"
                   [] OTHER -> "button"
        endswith == [edittext |-> {"edittext"}, appcompatedittext |-> {"edittext"},
                     switch |-> {"switch"}, radiobutton |-> {}, button |-> {}]
    IN endswith[lower] # {}

\* generate_dart_code, step 7 and the options of the template: the handler
\* is in handlers_code, the view in widget_tree
RenderScreen ==
    /\ lowphase = "lowered"
    /\ lowphase' = "rendered"
    /\ is_stateful' = <<has_text_field(screen_view)>>
    /\ UNCHANGED <<block_src, block_ast, dart_lines, screen_view, nonLowVars>>

(***************************************************************************)
(* xml_parser._convert_node on one element: the loop over el.attrib that  *)
(* fills node["attrs"].                                                    *)
(***************************************************************************)
\* the most attributes of the modelled element
MaxAttrs == 3

ANDROID_NS == "{http://schemas.android.com/apk/res/android}"
APP_NS == "{http://schemas.android.com/apk/res-auto}"

\* el.attrib of the modelled elements: an ordered mapping from qualified
\* names (namespace, local name; ns "" for a name without namespace) to
\* values, no qualified name twice
AttribLists ==
    LET Attribs ==
          {[ns |-> ANDROID_NS, local |-> "src", v |-> "@drawable/legacy"],
           [ns |-> APP_NS, local |-> "srcCompat", v |-> "@drawable/compat"],
           [ns |-> ANDROID_NS, local |-> "id", v |-> "@+id/icon"],
           [ns |-> "{http://schemas.android.com/tools}", local |-> "src",
            v |-> "@drawable/preview"],
           [ns |-> "", local |-> "style", v |-> "@style/Icon"]}
    IN {s \in UNION {[1..n -> Attribs] : n \in 0..MaxAttrs} :
          \A i, j \in DOMAIN s : i # j => s[i] # s[j]}

ParIdle ==
    /\ pphase = "idle"
    /\ el_attrib = <<>>
    /\ attr_pos = 0
    /\ node_attrs = <<>>

\* one pass of "for k, v in el.attrib.items()"
ConvertAttr ==
    /\ pphase = "attrs"
    /\ attr_pos <= Len(el_attrib)
    /\ LET ns == el_attrib[attr_pos].ns
           local == el_attrib[attr_pos].local
           v == el_attrib[attr_pos].v
       IN node_attrs' =
            \* (k :> v) @@ d is d after d[k] = v
            IF ns = "" THEN (local :> v) @@ node_attrs
            ELSE IF ns = ANDROID_NS THEN (local :> v) @@ node_attrs
            ELSE IF ns = APP_NS
                 THEN IF local = "srcCompat"
                      THEN ("src" :> v) @@ (local :> v) @@ node_attrs
                      ELSE (local :> v) @@ node_attrs
            ELSE ((ns \o local) :> v) @@ node_attrs
    /\ attr_pos' = attr_pos + 1
    /\ UNCHANGED <<pphase, el_attrib, nonParVars>>

\* the loop is over and the node is returned (an element without children)
ReturnNode ==
    /\ pphase = "attrs"
    /\ attr_pos > Len(el_attrib)
    /\ pphase' = "returned"
    /\ UNCHANGED <<el_attrib, attr_pos, node_attrs, nonParVars>>

(***************************************************************************)
(* translate_node on an empty FrameLayout whose id has a fragment: the    *)
(* rule parses the fragment's layout file and calls translate_node on it, *)
(* and that layout may hold an empty FrameLayout with a fragment again.   *)
(* The calls are steps on a call stack.  A layout is what matters for the *)
(* recursion: its root is a TextView ("text") or an empty FrameLayout     *)
(* with one of FragmentIds ("container", "other"); a file may also be     *)
(* "missing" or "broken" (parse_layout_xml raises).                        *)
(***************************************************************************)
\* the nested fragment loads the interpreter allows before it raises
\* RecursionError (sys.getrecursionlimit() divided by the frames of one load)
RecursionLimit == 3

FrIdle ==
    /\ frphase = "idle"
    /\ frag_files = <<>>
    /\ frag_map = <<>>
    /\ call_stack = <<>>
    /\ frag_widget = NoWidget

\* the FrameLayout rule with a handler that catches the errors of the file
\* and of the parser only: a RecursionError out of the call goes through
TranslateFrame_CatchesParseErrorsOnly ==
    /\ frphase = "running"
    /\ call_stack[Len(call_stack)].body = <<>>
    /\ LET top == call_stack[Len(call_stack)]
           layout_file == IF top.node \in FragmentIds THEN frag_map[top.node] ELSE ""
           body == IF top.node = "text" THEN Widget("Text", Lit("Home"), <<>>, <<>>)
                   ELSE IF layout_file = "" THEN EmptyContainerPlaceholder
                   ELSE IF frag_files[layout_file] = "missing"
                   THEN Placeholder("Layout file not found")
                   ELSE Placeholder("Failed to load fragment")
       IN /\ IF top.node = "text" \/ layout_file = "" THEN TRUE
             ELSE frag_files[layout_file] \in {"missing", "broken"}
          /\ call_stack' = [call_stack EXCEPT ![Len(call_stack)].body = <<body>>]
    /\ UNCHANGED <<frphase, frag_files, frag_map, frag_widget, nonFrVars>>

\* the FrameLayout rule on the node on top of the stack, where it makes no
\* call: a TextView, no fragment for the id, no layout file, a layout file
\* that does not parse, or a RecursionError out of the call, which
\* "except Exception" catches
TranslateFrame ==
    /\ frphase = "running"
    /\ call_stack[Len(call_stack)].body = <<>>
    /\ LET top == call_stack[Len(call_stack)]
           layout_file == IF top.node \in FragmentIds THEN frag_map[top.node] ELSE ""
           body == IF top.node = "text" THEN Widget("Text", Lit("Home"), <<>>, <<>>)
                   ELSE IF layout_file = "" THEN EmptyContainerPlaceholder
                   ELSE IF frag_files[layout_file] = "missing"
                   THEN Placeholder("Layout file not found")
                   ELSE Placeholder("Failed to load fragment")
       IN /\ IF top.node = "text" \/ layout_file = "" THEN TRUE
             ELSE \/ frag_files[layout_file] \in {"missing", "broken"}
                  \/ Len(call_stack) >= RecursionLimit
          /\ call_stack' = [call_stack EXCEPT ![Len(call_stack)].body = <<body>>]
    /\ UNCHANGED <<frphase, frag_files, frag_map, frag_widget, nonFrVars>>

\* fragment_widget = translate_node(fragment_ir_tree, ...): the call on the
\* fragment's layout
LoadFragmentLayout ==
    /\ frphase = "running"
    /\ call_stack[Len(call_stack)].body = <<>>
    /\ call_stack[Len(call_stack)].node \in FragmentIds
    /\ frag_map[call_stack[Len(call_stack)].node] # ""
    /\ frag_files[frag_map[call_stack[Len(call_stack)].node]] \notin {"missing", "broken"}
    /\ Len(call_stack) < RecursionLimit
    /\ call_stack' =
         Append(call_stack,
                [node |-> frag_files[frag_map[call_stack[Len(call_stack)].node]],
                 body |-> <<>>])
    /\ UNCHANGED <<frphase, frag_files, frag_map, frag_widget, nonFrVars>>

\* a call returns: the document node of a fragment's layout is lowered by the
\* fallback, Container(child: <root>), and becomes the caller's body; the
\* first call returns the widget
ReturnWidget ==
    /\ frphase = "running"
    /\ call_stack[Len(call_stack)].body # <<>>
    /\ IF Len(call_stack) = 1
       THEN /\ frphase' = "returned"
            /\ frag_widget' = call_stack[1].body[1]
            /\ UNCHANGED call_stack
       ELSE /\ call_stack' =
                 [SubSeq(call_stack, 1, Len(call_stack) - 1)
                    EXCEPT ![Len(call_stack) - 1].body =
                       <<Wrap("Container", <<"decoration">>,
                              call_stack[Len(call_stack)].body[1])>>]
            /\ UNCHANGED <<frphase, frag_widget>>
    /\ UNCHANGED <<frag_files, frag_map, nonFrVars>>

ColIdle ==
    /\ colorIn = <<>>
    /\ colorOut = [called |-> FALSE, out |-> None]

InitResolver == ResInit /\ ColIdle /\ HdlIdle /\ BgIdle /\ LayIdle /\ LowIdle /\ ParIdle /\ FrIdle

SpecResolver ==
    /\ InitResolver
    /\ [][
         \/ \E tag \in {"color", "string", "dimen"} :
              \E name \in KeysOf(tag), text \in TextsOf(tag) :
                 LoadValuesEntry(tag, name, text)
         \/ EndPrimaryValues
         \/ \E name \in ColorKeys, items \in ItemLists : LoadColorSelector(name, items)
         \/ EndColorResources
         \/ EndNightValues
         \/ \E name \in DrawableKeys, path \in DrawablePaths : LoadDrawable(name, path)
         \/ EndDrawables
         \/ \E val \in ResolveArgs : ResolveCall(val)
         \/ \E size_raw \in {Lit("16dp"), Lit("14.5sp"), Lit("0sp"), Ref("dimen", "margin")},
                with_resolver \in BOOLEAN :
               TextStyleCall(size_raw, with_resolver)
         ]_vars

InitColor ==
    /\ ResIdle
    /\ colorIn \in ColorInputs
    /\ colorOut = [called |-> FALSE, out |-> None]
    /\ HdlIdle
    /\ BgIdle
    /\ LayIdle
    /\ LowIdle
    /\ ParIdle
    /\ FrIdle

SpecColor == InitColor /\ [][ConvertColor]_vars

InitHandlers == ResIdle /\ ColIdle /\ HdlInit /\ BgIdle /\ LayIdle /\ LowIdle /\ ParIdle /\ FrIdle

SpecHandlers ==
    /\ InitHandlers
    /\ [][
         \/ \E src \in JavaSources : ReadJavaFile(src)
         \/ MergeFileHandlers
         \/ \E java_methods \in JavaMethodLists : BuildLogicAndHandlers(java_methods)
         \/ \E xml_id \in Ids : TranslateButton(xml_id, "")
         ]_vars

InitBackground == ResIdle /\ ColIdle /\ HdlIdle /\ BgInit /\ LayIdle /\ LowIdle /\ ParIdle /\ FrIdle

SpecBackground ==
    /\ InitBackground
    /\ [][
         \/ \E sub_ir \in LayoutFiles : CollectSiblingFile(sub_ir)
         \/ CollectPrimaryFile
         \/ MergeBackgrounds
         \/ \E res \in RootResolutions : HoistRootBackground(res)
         ]_vars

InitLayout == ResLoaded /\ ColIdle /\ HdlIdle /\ BgIdle /\ LayInit /\ LowIdle /\ ParIdle /\ FrIdle

SpecLayout == InitLayout /\ [][TranslateNode]_vars

\* a handler body before it is parsed
InitLowering ==
    /\ ResIdle /\ ColIdle /\ HdlIdle /\ BgIdle /\ LayIdle /\ ParIdle /\ FrIdle
    /\ lowphase = "source"
    /\ block_src \in BlockSources
    /\ block_ast = <<>>
    /\ dart_lines = <<>>
    /\ screen_view \in {"Button", "EditText", "AppCompatEditText", "Switch", "RadioButton"}
    /\ is_stateful = <<>>

SpecLowering == InitLowering /\ [][ParseBlock \/ LowerBlock \/ RenderScreen]_vars

\* _convert_node has built the node of an element, its attrs still {}
InitParser ==
    /\ ResIdle /\ ColIdle /\ HdlIdle /\ BgIdle /\ LayIdle /\ LowIdle /\ FrIdle
    /\ pphase = "attrs"
    /\ el_attrib \in AttribLists
    /\ attr_pos = 1
    /\ node_attrs = <<>>

SpecParser == InitParser /\ [][ConvertAttr \/ ReturnNode]_vars

\* translate_node is called on a TextView or on an empty FrameLayout;
\* fragments_by_id gives a container id no fragment or a layout file
InitFragments ==
    /\ ResIdle /\ ColIdle /\ HdlIdle /\ BgIdle /\ LayIdle /\ LowIdle /\ ParIdle
    /\ frphase = "running"
    /\ frag_files \in [{"fragment_home.xml", "fragment_other.xml"} ->
                         {"text", "missing", "broken"} \cup FragmentIds]
    /\ frag_map \in [FragmentIds -> {"", "fragment_home.xml", "fragment_other.xml"}]
    /\ call_stack \in {<<[node |-> n, body |-> <<>>]>> : n \in {"text"} \cup FragmentIds}
    /\ frag_widget = NoWidget

\* every call in progress goes on: the interpreter runs the one thread
SpecFragments ==
    /\ InitFragments
    /\ [][TranslateFrame \/ LoadFragmentLayout \/ ReturnWidget]_vars
    /\ WF_vars(TranslateFrame \/ LoadFragmentLayout \/ ReturnWidget)

\* is val a reference that resolve() would replace by a table entry
IsResolvableRef(val) == resolve(val) # val

IsReference(val) ==
    \E cat \in {"color", "string", "dimen", "drawable"} : StartsWithRef(val, cat)

\* C1: once a key of colors, strings or dimens is set, no later source
\* (a later file, the color/ selectors, the night variant) changes its value.
C1_SetKeyNeverOverwritten ==
    [][/\ \A k \in ColorKeys : Has(colors, k) => colors'[k] = colors[k]
       /\ \A k \in StringKeys : Has(strings, k) => strings'[k] = strings[k]
       /\ \A k \in DimenKeys : Has(dimens, k) => dimens'[k] = dimens[k]]_vars

IsHashHex(str, n) ==
    /\ Len(str) = n + 1
    /\ str[1] = "#"
    /\ \A i \in 2..Len(str) : str[i] \in HexChars

\* C3: a hash and 6 hex digits give 0xFF and the digits, a hash and 8 hex
\* digits give 0x and the same digits, every other shape gives none
\* (surrounding blanks and the letters' case are not held against the code).
C3_ShapeDecidesResult ==
    colorOut.called =>
        LET s == Strip(colorIn) IN
        IF IsHashHex(s, 6)
        THEN colorOut.out = <<"0", "x", "F", "F">> \o Upper(Tail(s))
        ELSE IF IsHashHex(s, 8)
        THEN colorOut.out = <<"0", "x">> \o Upper(Tail(s))
        ELSE colorOut.out = None

\* can the call site be resolved to a layout id: through an inline R.id
\* literal, or through a findViewById assignment of its last segment
IsResolvable(site, src, ids) ==
    \/ site.inline \in ids
    \/ \E b \in 1..Len(src.bindings) :
         src.bindings[b].var = site.lastSeg /\ src.bindings[b].id \in ids

ResolvableSites(src, ids) ==
    {n \in 1..Len(src.sites) : IsResolvable(src.sites[n], src, ids)}

\* C4: every id of a handler's view_ids and every key of handlers_by_id is a
\* layout id, every handler has an id, and a file yields at most as many
\* handlers as it has resolvable call sites.
C4_HandlersOnlyForKnownIds ==
    /\ \A i \in 1..Len(handlers) :
         /\ handlers[i].view_ids # <<>>
         /\ \A j \in 1..Len(handlers[i].view_ids) : handlers[i].view_ids[j] \in id_set
    /\ \A i \in Ids : handlers_by_id[i] # <<>> => i \in id_set
    /\ hphase = "extracted" =>
         Len(handlers) <= Cardinality(ResolvableSites(java_src, id_set))

\* a file with an unresolvable call site and a resolvable one was read
C4_UnresolvableSiteDiscarded ==
    /\ hphase = "extracted"
    /\ \E n \in 1..Len(java_src.sites) :
         /\ ~IsResolvable(java_src.sites[n], java_src, id_set)
         /\ PatternMatches(java_src.sites[n])
    /\ Len(handlers) = 1
    /\ Len(java_src.sites) = 2

\* C5: once handlers_by_id[id] is set, no later call site or file changes it.
C5_FirstHandlerWins ==
    [][\A i \in Ids : handlers_by_id[i] # <<>> =>
            handlers_by_id'[i] = handlers_by_id[i]]_vars

\* a second file brings another handler for an id the first file has set
C5_LaterFileSameId ==
    /\ hphase = "extracted"
    /\ filesRead = 2
    /\ handlers_by_id["submit"] # <<>>
    /\ \E n \in 1..Len(handlers) :
         /\ handlers[n].view_ids = <<"submit">>
         /\ handlers[n].java_src # handlers_by_id["submit"][1].java_src

\* the companion file of scenario B:
\*   Button submit = findViewById(R.id.submit);
\*   submit.setOnClickListener(v -> finish());
ScenarioBSource ==
    [bindings |-> <<Binding("submit", "submit")>>,
     sites |-> <<Site("", "submit", "expr_lambda", <<"finish">>)>>]

\* C6: scenario B yields exactly one handler, for submit, whose lowered body
\* is the single pop-navigation statement, and a Button without
\* android:onClick calls the function named after its id's handler.
C6_ScenarioBOneHandler ==
    /\ (hphase = "extracted" /\ java_src = ScenarioBSource) =>
         /\ Len(handlers) = 1
         /\ handlers[1].view_ids = <<"submit">>
         /\ java_ast_block_to_dart(handlers[1].ast) = <<"Navigator.maybePop(context);">>
    /\ (button.id # "" /\ button.onClick = "" /\ handlers_by_id[button.id] # <<>>) =>
         /\ button.onPressed = PressedName(button.id)
         /\ \E f \in handler_funcs : f.name = button.onPressed

(***************************************************************************)
(* Background merge                                                        *)
(***************************************************************************)
PrimaryRoot == xml_ir.children[1]

\* C7: when a sibling file's root element declares background "@color/red"
\* (and no sibling read before it declares another) and the primary file's
\* root element declares none, the primary root element has background
\* "@color/red" after the merge.
C7_PrimaryRootAdoptsBackground ==
    (bphase = "merged" /\ primaryRead /\ primary_root_bg = Absent
        /\ sibling_root_bg = "@color/red")
    => PrimaryRoot.attrs.background = "@color/red"

\* the backgrounds of the root element and of its children, in document order
BackgroundsOf(doc) ==
    <<doc.children[1].attrs.background>>
        \o [n \in 1..Len(doc.children[1].children) |->
               doc.children[1].children[n].attrs.background]

\* C8: every node of the primary tree that has a background attribute keeps
\* its value through every step, the merge included, whatever the sibling
\* files declared and in whatever order they were read.
C8_PrimaryBackgroundsKept ==
    [][\A n \in 1..Len(BackgroundsOf(xml_ir)) :
          BackgroundsOf(xml_ir)[n] # Absent
          => BackgroundsOf(xml_ir')[n] = BackgroundsOf(xml_ir)[n]]_vars

\* the merge has run on a primary node whose key a sibling file took first
\* with another background
C8_SiblingDeclaredOtherBackground ==
    /\ bphase = "merged"
    /\ \E node \in {PrimaryRoot} \cup {PrimaryRoot.children[n] :
                                        n \in 1..Len(PrimaryRoot.children)} :
          /\ Truthy(node.attrs.id)
          /\ node.attrs.background # Absent
          /\ bg_map[IdKey(node.attrs.id)] \notin {"", node.attrs.background}

(***************************************************************************)
(* Layout rules                                                            *)
(***************************************************************************)
\* the wrappers the rules put around a widget
Wrappers == {"Center", "Container", "Todo", "Expanded", "SizedBox", "InkWell"}
RECURSIVE Core(_)
Core(wd) == IF wd.w \in Wrappers THEN Core(wd.children[1]) ELSE wd

\* the text a Dart string literal denotes
UnescapeChunk(chunk) ==
    CASE chunk = "Say \\\"hi\\\"" -> "Say \"hi\""
      [] OTHER -> chunk
DartValue(label) == [n \in 1..Len(label) |-> UnescapeChunk(label[n])]

\* a text attribute with its @string/ reference replaced by the table's value
ExpectedText(text_raw) ==
    IF StartsWithRef(text_raw, "string") /\ Has(strings, KeyOf(text_raw))
    THEN strings[KeyOf(text_raw)] ELSE text_raw

IsVerticalStack ==
    /\ lphase = "translated"
    /\ layout_node.type = "LinearLayout"
    /\ layout_node.attrs.orientation = "vertical"

ChildrenInSourceOrder(col) ==
    /\ col.w = "Column"
    /\ Len(col.children) = Len(layout_node.children)
    /\ \A n \in 1..Len(layout_node.children) :
          Core(col.children[n]) = Core(translate_node(layout_node.children[n]))

\* C9 as stated: a vertical LinearLayout becomes a Column of the lowered
\* children in source order, and every TextView child is a Text whose literal
\* denotes the child's text with its @string/ reference replaced.
C9_LabelsCarryResolvedText ==
    IsVerticalStack =>
       /\ ChildrenInSourceOrder(Core(widget))
       /\ \A n \in 1..Len(layout_node.children) :
             layout_node.children[n].type = "TextView"
             => LET label == Core(Core(widget).children[n])
                IN /\ label.w = "Text"
                   /\ DartValue(label.label) = ExpectedText(layout_node.children[n].attrs.text)

\* C9, amended: the same, but a TextView with an id whose resolved text is
\* empty carries the placeholder "[id]".
C9_LabelsCarryResolvedTextOrIdPlaceholder ==
    IsVerticalStack =>
       /\ ChildrenInSourceOrder(Core(widget))
       /\ \A n \in 1..Len(layout_node.children) :
             layout_node.children[n].type = "TextView"
             => LET label == Core(Core(widget).children[n])
                    attrs == layout_node.children[n].attrs
                IN /\ label.w = "Text"
                   /\ DartValue(label.label) =
                        IF ExpectedText(attrs.text) = Lit("") /\ attrs.id # ""
                        THEN <<"[", id_base(attrs.id), "]">>
                        ELSE ExpectedText(attrs.text)

\* Scenario A: "Hello" and @string/greeting = "World" under a vertical stack
C9_ScenarioAHelloWorld ==
    /\ IsVerticalStack
    /\ has_resolver
    /\ strings["greeting"] = Lit("World")
    /\ Len(layout_node.children) = 2
    /\ layout_node.children[1].attrs.text = Lit("Hello")
    /\ layout_node.children[2].attrs.text = Ref("string", "greeting")
    /\ Core(widget).w = "Column"
    /\ Core(widget).children[1].label = Lit("Hello")
    /\ Core(widget).children[2].label = Lit("World")

\* no fragment is registered for the node's id
NoFragmentFor(node) ==
    \/ ~HasFragments(fragments_by_id)
    \/ node.attrs.id = ""
    \/ fragments_by_id.entries[id_base(node.attrs.id)] = <<>>

RECURSIVE HasEmptyStack(_)
HasEmptyStack(wd) ==
    \/ wd.w = "Stack" /\ wd.children = <<>>
    \/ \E n \in 1..Len(wd.children) : HasEmptyStack(wd.children[n])

\* C10: a FrameLayout without children and without a fragment registered for
\* its id, as the root or as a child of the root, is lowered to the "empty
\* container" placeholder, and no empty Stack appears in the result.
C10_EmptyFrameIsPlaceholder ==
    lphase = "translated" =>
       /\ (layout_node.type = "FrameLayout" /\ layout_node.children = <<>>
              /\ NoFragmentFor(layout_node))
          => Core(widget) = EmptyContainerPlaceholder
       /\ layout_node.type = "LinearLayout"
          => \A n \in 1..Len(layout_node.children) :
                (layout_node.children[n].type = "FrameLayout"
                    /\ layout_node.children[n].children = <<>>
                    /\ NoFragmentFor(layout_node.children[n]))
                => Core(Core(widget).children[n]) = EmptyContainerPlaceholder
       /\ ~HasEmptyStack(widget)

\* an empty FrameLayout with an id while only another id has a fragment
C10_EmptyFrameOtherFragment ==
    /\ lphase = "translated"
    /\ layout_node.type = "FrameLayout"
    /\ layout_node.children = <<>>
    /\ layout_node.attrs.id = "@+id/container"
    /\ fragments_by_id.entries["other"] # <<>>
    /\ widget = EmptyContainerPlaceholder

\* the LinearLayout's Row or Column, inside its Center and background wrappers
StackOf(wd) == IF wd.w \in {"Center", "Container", "Todo"} THEN Core(wd) ELSE wd

IsTranslatedStack == lphase = "translated" /\ layout_node.type = "LinearLayout"

\* the child's extent along the stack's main axis is match_parent
MainAxisFill(child) ==
    IF layout_node.attrs.orientation = "horizontal"
    THEN child.attrs.layout_width = "match_parent"
    ELSE child.attrs.layout_height = "match_parent"

\* the stack holds one expression per child, in the children's order
StackInSourceOrder ==
    /\ StackOf(widget).w =
          (IF layout_node.attrs.orientation = "horizontal" THEN "Row" ELSE "Column")
    /\ Len(StackOf(widget).children) = Len(layout_node.children)
    /\ \A n \in 1..Len(layout_node.children) :
          Core(StackOf(widget).children[n]) = Core(translate_node(layout_node.children[n]))

UpTo(n) == 0..n

\* the element-nesting depth of a markup tree
RECURSIVE ElementDepth(_)
ElementDepth(node) ==
    1 + (CHOOSE d \in UpTo(4) :
            /\ \A n \in 1..Len(node.children) : ElementDepth(node.children[n]) <= d
            /\ d = 0 \/ \E n \in 1..Len(node.children) : ElementDepth(node.children[n]) = d)

\* the nesting depth of a widget expression
RECURSIVE WidgetDepth(_)
WidgetDepth(wd) ==
    1 + (CHOOSE d \in UpTo(8) :
            /\ \A n \in 1..Len(wd.children) : WidgetDepth(wd.children[n]) <= d
            /\ d = 0 \/ \E n \in 1..Len(wd.children) : WidgetDepth(wd.children[n]) = d)

\* C12: the widget expression translate_node produces nests at least as
\* deep as the markup tree it was produced from.
C12_DepthNeverCollapses ==
    lphase = "translated" => WidgetDepth(widget) >= ElementDepth(layout_node)

\* C13: generate_dart_code runs to completion for every well-formed primary
\* layout, with or without a java_root, whatever handlers and methods the
\* companion sources yield: _build_logic_and_handlers never raises.
C13_BuildNeverRaises == hphase # "raised"

\* C18: without a java_root (no file is read), once _build_logic_and_handlers
\* was called the generated handler definitions hold a definition for the
\* name every Button of the layout calls in onPressed.
C18_ButtonHandlersDefinedWithoutJavaRoot ==
    (filesRead = 0 /\ hphase # "closed")
    => \A xml_id \in id_set :
          \E f \in handler_funcs : f.name = ButtonHandlerName(xml_id, "", logic_map)

(***************************************************************************)
(* Statement lowering                                                      *)
(***************************************************************************)
\* C14: _java_ast_block_to_dart returns lines for every block of MethodCall,
\* IfStmt and RawStmt statements; it never raises.
C14_LoweringNeverRaises == lowphase # "raised"

\* the lines up to and including the first "return;"
UpToReturn(lines) ==
    LET returns == {n \in 1..Len(lines) : lines[n] = "return;"}
    IN IF returns = {} THEN lines
       ELSE SubSeq(lines, 1, CHOOSE n \in returns : \A k \in returns : n <= k)

\* C19: an IfStmt with an else block is lowered to the if line, the lowered
\* then branch (cut after a return), "}", and an else block holding the
\* lowered else statements.
C19_IfLowersBothBranches ==
    (/\ lowphase = "lowered"
     /\ Len(block_ast) = 1
     /\ block_ast[1].kind = "IfStmt"
     /\ block_ast[1].else_block # <<>>)
    => dart_lines =
         <<"if (" \o block_ast[1].condition \o ") {">>
           \o Indented(UpToReturn(java_ast_block_to_dart(block_ast[1].then_block)))
           \o <<"}", "else {">>
           \o Indented(java_ast_block_to_dart(block_ast[1].else_block[1]))
           \o <<"}">>

\* C20: a handler body with the statement if (isTaskRoot()) { ... } is
\* lowered to lines that hold "if (!Navigator.canPop(context)) {", the
\* lowered statements of its body, and "}".
C20_TaskRootIfLowered ==
    (/\ lowphase = "lowered"
     /\ block_src.ifs # <<>>
     /\ block_src.ifs[1].cond = "isTaskRoot()")
    => LET body == Indented(UpToReturn(java_ast_block_to_dart(
                                parse_block_to_ast(block_src.ifs[1].then))))
       IN \E n \in 1..Len(dart_lines) :
             /\ dart_lines[n] = "if (!Navigator.canPop(context)) {"
             /\ n + Len(body) + 1 <= Len(dart_lines)
             /\ SubSeq(dart_lines, n + 1, n + Len(body)) = body
             /\ dart_lines[n + Len(body) + 1] = "}"

\* the element carries both android:src and app:srcCompat
CarriesSrcAndSrcCompat ==
    /\ \E i \in DOMAIN el_attrib :
          el_attrib[i].ns = ANDROID_NS /\ el_attrib[i].local = "src"
    /\ \E i \in DOMAIN el_attrib :
          el_attrib[i].ns = APP_NS /\ el_attrib[i].local = "srcCompat"

\* C15: an element that carries both android:src and app:srcCompat, in
\* either order, is returned with src equal to the android:src value and
\* srcCompat equal to the app:srcCompat value: srcCompat is copied to src
\* only if src is not there yet.
C15_SrcCompatKeepsDeclaredSrc ==
    (pphase = "returned" /\ CarriesSrcAndSrcCompat)
        => /\ node_attrs["src"] = "@drawable/legacy"
           /\ node_attrs["srcCompat"] = "@drawable/compat"

\* the node without the comments and processing instructions in it
RECURSIVE WithoutMarkup(_)
WithoutMarkup(node) ==
    LET elements == SelectSeq(node.children,
                              LAMBDA c : c.type \notin {"comment", "pi"})
    IN [node EXCEPT !.children = [n \in 1..Len(elements) |-> WithoutMarkup(elements[n])]]

\* C16: comments and processing instructions are never treated as widget
\* nodes: translate_node emits no widget expression for a node of type
\* comment or pi, before or after the root element or among an element's
\* children, so the widget tree of a document is that of the same document
\* without them.
C16_MarkupEmitsNoWidget ==
    lphase = "translated" => widget = translate_node(WithoutMarkup(layout_node))

\* the Text widgets in a widget expression
RECURSIVE TextLeaves(_)
TextLeaves(wd) ==
    LET RECURSIVE Sum(_)
        Sum(n) == IF n = 0 THEN 0 ELSE Sum(n - 1) + TextLeaves(wd.children[n])
    IN (IF wd.w = "Text" THEN 1 ELSE 0) + Sum(Len(wd.children))

\* layout_node is a RelativeLayout, a child of which declares layout_below
IsAnchoredRelativeLayout ==
    /\ layout_node.type = "RelativeLayout"
    /\ \E n \in 1..Len(layout_node.children) :
          layout_node.children[n].attrs.layout_below # ""

\* C17: no data loss in a RelativeLayout of which a child declares
\* layout_below: every child of the container is emitted exactly once in the
\* resulting Column, for cyclic and dangling references and for children
\* with ids, without ids and with repeated ids; so the Column holds as many
\* TextView widgets as the container has TextView children.
C17_RelativeLayoutKeepsEveryChild ==
    (lphase = "translated" /\ IsAnchoredRelativeLayout)
        => TextLeaves(widget) = Len(layout_node.children)

\* the child's extent across the stack's main axis is match_parent
CrossAxisFill(child) ==
    IF layout_node.attrs.orientation = "horizontal"
    THEN child.attrs.layout_height = "match_parent"
    ELSE child.attrs.layout_width = "match_parent"

\* C21: in a LinearLayout of either orientation every child that fills the
\* main axis is wrapped in Expanded and in no SizedBox of infinite extent,
\* and every child that fills the cross axis and not the main axis is
\* wrapped in a SizedBox of infinite extent, whatever the child and its
\* lowered code.
C21_FillChildrenWrapped ==
    IsTranslatedStack
    => \A n \in 1..Len(layout_node.children) :
          LET child == layout_node.children[n]
              out == StackOf(widget).children[n]
          IN /\ MainAxisFill(child)
                => out.w = "Expanded" /\ out.children[1].w # "SizedBox"
             /\ (CrossAxisFill(child) /\ ~MainAxisFill(child))
                => out.w = "SizedBox"

\* C22: the Row or Column of a LinearLayout whose gravity holds center never
\* carries MainAxisAlignment.center, in either orientation: translate_layout
\* does not opt in to main-axis centering.
C22_NoMainAxisCenter ==
    (IsTranslatedStack /\ GravityHas(Lower(layout_node.attrs.gravity), "center"))
    => \A n \in 1..Len(StackOf(widget).props) :
          StackOf(widget).props[n] # "MainAxisAlignment.center"

\* C23: a node's background is applied at most once: a Button whose
\* background became the backgroundColor of its style is not wrapped in a
\* background Container as well.
C23_BackgroundAppliedOnce ==
    (lphase = "translated" /\ layout_node.type = "Button")
    => ~(/\ widget.w = "Container"
         /\ widget.children[1].w = "ElevatedButton"
         /\ widget.children[1].props[Len(widget.children[1].props)]
               # "Colors.grey.shade300")

\* C24: when the root element of the primary layout declares a background
\* and the resolver resolves it to a colour, a drawable image or a shape
\* drawable, step 5 of generate_dart_code records it as scaffold_bg_color,
\* scaffold_bg_image or scaffold_bg_decoration and removes the attribute
\* from the root element before translate_node runs; it is not left with
\* the default white.
C24_RootBackgroundHoisted ==
    (/\ bphase = "hoisted"
     /\ Truthy(primary_root_bg)
     /\ scaffold_bg.res[1].resolver
     /\ \/ scaffold_bg.res[1].color # ""
        \/ scaffold_bg.res[1].decoration # ""
        \/ scaffold_bg.res[1].drawable_path = "res/drawable/bg.png")
    => /\ <<scaffold_bg.color, scaffold_bg.image, scaffold_bg.decoration>>
            # <<"0xFFFFFFFF", "", "">>
       /\ PrimaryRoot.attrs.background = Absent

\* C25: in a RelativeLayout lowered to a Column the vertical order follows
\* layout_below when the references are acyclic: of two children with
\* distinct ids, B declaring layout_below = A, A stands before B in the
\* Column.  (A TextView without text shows its id as "[id]".)
C25_BelowFollowsAnchor ==
    (lphase = "translated" /\ IsAnchoredRelativeLayout)
    => \A m, n \in 1..Len(layout_node.children) :
          LET a == layout_node.children[m].attrs
              b == layout_node.children[n].attrs
          IN (/\ a.id # "" /\ b.id # ""
              /\ a.id # b.id
              /\ id_base(b.layout_below) = id_base(a.id)
              /\ id_base(a.layout_below) # id_base(b.id))
             => \E i, j \in 1..Len(widget.children) :
                   /\ i < j
                   /\ Core(widget.children[i]).label = <<"[", id_base(a.id), "]">>
                   /\ Core(widget.children[j]).label = <<"[", id_base(b.id), "]">>

\* C26: translate_node terminates for every layout and every fragment map:
\* the calls into fragment layouts come to an end and the first call returns
\* a widget, also when a fragment's layout holds, directly or through another
\* fragment's layout, an empty FrameLayout whose fragment is that layout again.
C26_TranslateNodeTerminates == <>(frphase = "returned")

\* a fragment layout that loads itself was translated: the first call returned
\* after the calls had reached the interpreter's limit
C26_SelfReferenceReturned ==
    /\ frphase = "returned"
    /\ frag_map["container"] = "fragment_home.xml"
    /\ frag_files["fragment_home.xml"] = "container"
    /\ call_stack[1].node = "container"
    /\ frag_widget.w = "Container"
    /\ frag_widget.children[1].w = "Container"
    /\ frag_widget.children[1].children[1] = Placeholder("Failed to load fragment")

\* the handler or the widget of the rendered screen holds a setState call:
\* a line of the handler, or the Radio / Switch of the view rules
HasSetState ==
    \/ \E n \in 1..Len(dart_lines) :
          dart_lines[n] \in {"setState(() { _doWork(); });",
                             "  setState(() { _doWork(); });"}
    \/ screen_view \in {"RadioButton", "Switch"}

\* C27: a screen whose widget tree or handlers hold a setState call is
\* generated as stateful: is_stateful is true.
C27_SetStateImpliesStateful ==
    (lowphase = "rendered" /\ HasSetState) => is_stateful = <<TRUE>>

\* the handler name _build_logic_and_handlers generates for a layout id: from
\* the id when a handler was extracted for it, else from the camel-case id
GeneratedName(i) ==
    IF handlers_by_id[i] # <<>> THEN PressedName(i) ELSE PressedName(to_camel(i))

\* C28: after _build_logic_and_handlers has registered every layout id,
\* _find_handler(logic_map, id) returns the handler name generated for that
\* id, also when two ids share a candidate key, and different ids have
\* different handler names.
C28_FindHandlerFaithful ==
    hphase = "built" =>
        \A i \in id_set :
           /\ find_handler(logic_map, i) = GeneratedName(i)
           /\ \A j \in id_set \ {i} : GeneratedName(j) # GeneratedName(i)

\* C29: a MethodCall statement is lowered by the first rule of the priority
\* order that matches it and every rule is reachable: finish() without
\* arguments becomes Navigator.maybePop(context), finishAffinity() without
\* arguments becomes Navigator.popUntil(context, (route) => route.isFirst).
C29_FinishAffinityPopsToFirst ==
    (lowphase = "lowered" /\ block_src.ifs = <<>>) =>
       dart_lines =
         [n \in 1..Len(block_ast) |->
            CASE block_ast[n].target = "finish" -> "Navigator.maybePop(context);"
              [] block_ast[n].target = "finishAffinity" ->
                   "Navigator.popUntil(context, (route) => route.isFirst);"
              [] OTHER -> "setState(() { _doWork(); });"]

\* C30: a TextView whose textSize parses, after resolution, to a positive
\* number gets a fontSize entry with that number in its style, with a
\* resolver and without one.
C30_FontSizeWithAndWithoutResolver ==
    style_out.called =>
       LET size == IF style_out.resolver /\ resolve(style_out.textSize) # None
                   THEN resolve(style_out.textSize) ELSE style_out.textSize
       IN /\ size = Lit("16dp") => style_out.out = ", style: TextStyle(fontSize: 16.0)"
          /\ size = Lit("14.5sp") => style_out.out = ", style: TextStyle(fontSize: 14.5)"

====
